---------------------------- MODULE Spec2Model ----------------------------
(***************************************************************************)
(* A model of the trading bot's risk gate and order dispatch:              *)
(*   src/risk_manager.py      RiskManager, TradeStats                      *)
(*   src/execution_engine.py  ExecutionEngine, TradeTicket                 *)
(*   src/config.py            TradingConfig, ExecutionMode                 *)
(*                                                                         *)
(* Units.  Money is counted in whole account-currency units, prices and    *)
(* distances in units of 0.00001 (so the default point is 1), volumes in   *)
(* hundredths of a lot (so the default volume_min and volume_step are 1),  *)
(* spread and slippage in points.  Quotients are kept exact (numerator and *)
(* denominator) up to the place where the code itself rounds.  The running *)
(* sums of TradeStats are Python floats: their additions are modelled as   *)
(* round-to-nearest-even additions of a binary float with MantissaBits     *)
(* significant bits.                                                       *)
(***************************************************************************)
EXTENDS Integers, Sequences, FiniteSets, TLC

VARIABLES
    TradingConfig,       \* config.py: the class attributes of TradingConfig
    EXECUTION_MODE,      \* config.py: TradingConfig.EXECUTION_MODE
    now,                 \* the wall clock's date: [day, week]
    daily_stats,         \* RiskManager.daily_stats   {date key: TradeStats}
    weekly_stats,        \* RiskManager.weekly_stats  {week key: TradeStats}
    kill_switch_active,  \* RiskManager.kill_switch_active
    kill_switch_reason,  \* RiskManager.kill_switch_reason
    pending_tickets,     \* ExecutionEngine.pending_tickets {ticket id: TradeTicket}
    ticket_counter,      \* ExecutionEngine.ticket_counter
    execution_log,       \* ExecutionEngine.execution_log
    ret                  \* the last call: its name, arguments of interest and return value

vars == <<TradingConfig, EXECUTION_MODE, now, daily_stats, weekly_stats,
          kill_switch_active, kill_switch_reason,
          pending_tickets, ticket_counter, execution_log, ret>>

riskVars == <<daily_stats, weekly_stats, kill_switch_active, kill_switch_reason>>
execVars == <<pending_tickets, ticket_counter, execution_log>>

-----------------------------------------------------------------------------
(* Bounds of the model *)

\* significant bits of the modelled float (the code's doubles have 53)
MantissaBits == 3
\* record_trade calls in one run
MaxRecords == 3
\* the days of one run
Days == {0, 1}

Symbols == {"EURUSD", "GBPUSD"}

\* (symbol, profit_loss) arguments of record_trade
TradeInputs == {<<"EURUSD", -3>>, <<"EURUSD", 0>>, <<"EURUSD", 2>>, <<"GBPUSD", -3>>}

\* account_equity arguments
Equities == {100, 1000}

\* datetime.now().hour readings
Hours == {8, 18}

-----------------------------------------------------------------------------
(* Python helpers *)

Abs(x) == IF x < 0 THEN -x ELSE x

Max(a, b) == IF a >= b THEN a ELSE b

EmptyDict == [k \in {} |-> 0]

\* dict.get(key, default)
Get(d, k, default) == IF k \in DOMAIN d THEN d[k] ELSE default

\* d[key] = value on a dict
Put(d, k, v) == [x \in DOMAIN d \cup {k} |-> IF x = k THEN v ELSE d[x]]

\* round(n / d) for n >= 0, d > 0: to the nearest integer, a tie to the even one
Round(n, d) ==
    LET q == n \div d
        r == n % d
    IN  IF 2 * r < d THEN q
        ELSE IF 2 * r > d THEN q + 1
        ELSE IF q % 2 = 0 THEN q ELSE q + 1

\* the spacing of the floats around magnitude m
RECURSIVE Ulp(_, _)
Ulp(m, u) == IF m \div u < 2 ^ MantissaBits THEN u ELSE Ulp(m, 2 * u)

\* a + b in float arithmetic: the exact sum rounded to the nearest float,
\* a tie to the one with the even mantissa
FloatAdd(a, b) ==
    LET x == a + b
        m == Abs(x)
        u == Ulp(m, 1)
        q == Round(m, u) * u
    IN  IF x < 0 THEN -q ELSE q

-----------------------------------------------------------------------------
(* config.py *)

DefaultConfig ==
    [ RISK_PER_TRADE_PERCENT        |-> 1,
      MAX_POSITIONS_PER_SYMBOL      |-> 1,
      MAX_TRADES_PER_DAY            |-> 3,
      MAX_TRADES_PER_SYMBOL_PER_DAY |-> 1,
      MAX_SLIPPAGE_POINTS           |-> 5,
      MAX_SPREAD_POINTS             |-> 10,
      DAILY_LOSS_LIMIT_PERCENT      |-> 3,
      WEEKLY_LOSS_LIMIT_PERCENT     |-> 5,
      TRADING_START_HOUR            |-> 0,
      TRADING_END_HOUR              |-> 23 ]

ExecutionMode == {"dry_run", "manual_confirm", "auto"}

\* the values the operator saves from the settings form
SettingsInputs ==
    { DefaultConfig,
      [DefaultConfig EXCEPT !.TRADING_START_HOUR = 8, !.TRADING_END_HOUR = 17] }

-----------------------------------------------------------------------------
(* signal_engine.py: the fields of a TradingSignal the risk gate reads *)

SignalType == {"BUY", "SELL", "NO_TRADE"}

Signal(signal, symbol, risk_points) ==
    [signal |-> signal, symbol |-> symbol, risk_points |-> risk_points]

Signals ==
    { Signal("BUY", "EURUSD", 500), Signal("BUY", "GBPUSD", 500),
      Signal("SELL", "GBPUSD", 0), Signal("NO_TRADE", "EURUSD", 0) }

\* current_positions arguments: {symbol: count}
PositionInputs == { EmptyDict, Put(EmptyDict, "EURUSD", 1) }

\* market_info arguments
StandardMarket ==
    [ k \in {"spread", "point", "volume_min", "volume_step"} |->
        CASE k = "spread" -> 10
          [] k = "point" -> 1
          [] k = "volume_min" -> 1
          [] k = "volume_step" -> 1 ]

MarketInfos == { StandardMarket, Put(StandardMarket, "spread", 11) }

-----------------------------------------------------------------------------
(* risk_manager.py: TradeStats *)

TradeStats(date) ==
    [ date            |-> date,
      total_trades    |-> 0,
      winning_trades  |-> 0,
      losing_trades   |-> 0,
      total_profit    |-> 0,
      total_loss      |-> 0,
      symbols_traded  |-> EmptyDict ]

\* datetime.now().strftime("%Y-%m-%d")
DayKey(t) == t.day

\* datetime.now().strftime("%Y-W%W")
WeekKey(t) == t.week

\* mutant: the day's block assigns the amount to the sum (= for +=)
daily_sum_overwritten(stat, symbol, profit_loss) ==
    LET counted == [stat EXCEPT !.total_trades = @ + 1]
        bucketed ==
            IF profit_loss > 0
            THEN [counted EXCEPT !.winning_trades = @ + 1,
                                 !.total_profit = profit_loss]
            ELSE [counted EXCEPT !.losing_trades = @ + 1,
                                 !.total_loss = profit_loss]
    IN  [bucketed EXCEPT !.symbols_traded =
            Put(@, symbol, Get(@, symbol, 0) + 1)]

\* the block of record_trade that updates the day's TradeStats
update_daily_stat(stat, symbol, profit_loss) ==
    LET counted == [stat EXCEPT !.total_trades = @ + 1]
        bucketed ==
            IF profit_loss > 0
            THEN [counted EXCEPT !.winning_trades = @ + 1,
                                 !.total_profit = FloatAdd(@, profit_loss)]
            ELSE [counted EXCEPT !.losing_trades = @ + 1,
                                 !.total_loss = FloatAdd(@, profit_loss)]
    IN  [bucketed EXCEPT !.symbols_traded =
            Put(@, symbol, Get(@, symbol, 0) + 1)]

\* mutant: the week's block puts a profit_loss of 0 in neither bucket
weekly_zero_in_no_bucket(stat, symbol, profit_loss) ==
    LET counted == [stat EXCEPT !.total_trades = @ + 1]
        bucketed ==
            IF profit_loss > 0
            THEN [counted EXCEPT !.winning_trades = @ + 1,
                                 !.total_profit = FloatAdd(@, profit_loss)]
            ELSE IF profit_loss < 0
            THEN [counted EXCEPT !.losing_trades = @ + 1,
                                 !.total_loss = FloatAdd(@, profit_loss)]
            ELSE counted
    IN  [bucketed EXCEPT !.symbols_traded =
            Put(@, symbol, Get(@, symbol, 0) + 1)]

\* the block of record_trade that updates the week's TradeStats
update_weekly_stat(stat, symbol, profit_loss) ==
    LET counted == [stat EXCEPT !.total_trades = @ + 1]
        bucketed ==
            IF profit_loss > 0
            THEN [counted EXCEPT !.winning_trades = @ + 1,
                                 !.total_profit = FloatAdd(@, profit_loss)]
            ELSE [counted EXCEPT !.losing_trades = @ + 1,
                                 !.total_loss = FloatAdd(@, profit_loss)]
    IN  [bucketed EXCEPT !.symbols_traded =
            Put(@, symbol, Get(@, symbol, 0) + 1)]

\* daily_stats after record_trade(symbol, profit_loss) at time t
record_daily(stats, t, symbol, profit_loss) ==
    LET today == DayKey(t)
        created == IF today \in DOMAIN stats THEN stats
                   ELSE Put(stats, today, TradeStats(t.day))
    IN  [created EXCEPT ![today] = update_daily_stat(@, symbol, profit_loss)]

\* weekly_stats after record_trade(symbol, profit_loss) at time t
record_weekly(stats, t, symbol, profit_loss) ==
    LET week_key == WeekKey(t)
        created == IF week_key \in DOMAIN stats THEN stats
                   ELSE Put(stats, week_key, TradeStats(t.day))
    IN  [created EXCEPT ![week_key] = update_weekly_stat(@, symbol, profit_loss)]

\* the record_trade calls made so far
RECURSIVE SumTrades(_, _)
SumTrades(stats, keys) ==
    IF keys = {} THEN 0
    ELSE LET k == CHOOSE x \in keys : TRUE
         IN  stats[k].total_trades + SumTrades(stats, keys \ {k})

Recorded == SumTrades(daily_stats, DOMAIN daily_stats)

-----------------------------------------------------------------------------
(* risk_manager.py: position sizing *)

\* mutant: the quotient lot_size / volume_step is truncated, not rounded
position_size_truncated(equity, stop_distance, market_info) ==
    LET point        == Get(market_info, "point", 1)
        tick_value   == Get(market_info, "tick_value", 1)
        volume_min   == Get(market_info, "volume_min", 1)
        volume_step  == Get(market_info, "volume_step", 1)
        sign == IF stop_distance * tick_value < 0 THEN -1 ELSE 1
        num == sign * equity * TradingConfig.RISK_PER_TRADE_PERCENT * point
        den == sign * stop_distance * tick_value
    IN  IF point = 0 \/ den = 0 \/ volume_step = 0
        THEN 0
        ELSE IF num < volume_min * den
             THEN (volume_min \div volume_step) * volume_step
             ELSE (num \div (den * volume_step)) * volume_step

\* mutant: where the arithmetic raises, the except branch returns volume_min
position_size_min_on_error(equity, stop_distance, market_info) ==
    LET point        == Get(market_info, "point", 1)
        tick_value   == Get(market_info, "tick_value", 1)
        volume_min   == Get(market_info, "volume_min", 1)
        volume_step  == Get(market_info, "volume_step", 1)
        sign == IF stop_distance * tick_value < 0 THEN -1 ELSE 1
        num == sign * equity * TradingConfig.RISK_PER_TRADE_PERCENT * point
        den == sign * stop_distance * tick_value
    IN  IF point = 0 \/ den = 0 \/ volume_step = 0
        THEN volume_min
        ELSE IF num < volume_min * den
             THEN Round(volume_min, volume_step) * volume_step
             ELSE Round(num, den * volume_step) * volume_step

\* the lot size, or 0 where the code's arithmetic raises and the except
\* branch returns 0.0
calculate_position_size(equity, stop_distance, market_info) ==
    LET risk_percent == TradingConfig.RISK_PER_TRADE_PERCENT
        point        == Get(market_info, "point", 1)
        tick_value   == Get(market_info, "tick_value", 1)
        volume_min   == Get(market_info, "volume_min", 1)
        volume_step  == Get(market_info, "volume_step", 1)
        \* lot_size = risk_money / (stop_distance_points * tick_value), in
        \* hundredths of a lot, as the fraction num / den
        sign == IF stop_distance * tick_value < 0 THEN -1 ELSE 1
        num == sign * equity * risk_percent * point
        den == sign * stop_distance * tick_value
        raised == num < volume_min * den
    IN  IF point = 0 \/ den = 0 \/ volume_step = 0
        THEN 0
        ELSE IF raised
             THEN Round(volume_min, volume_step) * volume_step
             ELSE Round(num, den * volume_step) * volume_step

-----------------------------------------------------------------------------
(* risk_manager.py: RiskManager.check_signal *)

\* A reason string: its fixed text (named by the check that writes it), the
\* values formatted into it, and the text put in front of it.
Reason(text, symbol, a, b) ==
    [prefix |-> "", text |-> text, symbol |-> symbol, a |-> a, b |-> b]

\* the empty string
NoReason == Reason("", "", 0, 0)

\* f"Kill Switch ...: {self.kill_switch_reason}"
KillSwitchMessage(reason) == [reason EXCEPT !.prefix = "Kill Switch: "]

Rejected(reason) == [approved |-> FALSE, reason |-> reason, lot |-> 0, arm |-> FALSE]

\* a rejection that first calls _activate_kill_switch(reason)
Armed(reason) == [approved |-> FALSE, reason |-> reason, lot |-> 0, arm |-> TRUE]

Approved(lot) ==
    [approved |-> TRUE, reason |-> Reason("passed", "", 0, 0), lot |-> lot, arm |-> FALSE]

\* The ten checks of check_signal in the current state: what the call
\* returns and whether it arms the kill switch.  Money in a reason is
\* formatted with two decimals and is kept in hundredths.
risk_checks(signal, account_equity, current_positions, market_info, current_hour) ==
    LET cfg == TradingConfig
        symbol_positions == Get(current_positions, signal.symbol, 0)
        today == DayKey(now)
        daily_stat == Get(daily_stats, today, TradeStats(now.day))
        symbol_trades_today == Get(daily_stat.symbols_traded, signal.symbol, 0)
        spread == Get(market_info, "spread", 0)
        \* the limits, times 100
        daily_loss_limit == account_equity * cfg.DAILY_LOSS_LIMIT_PERCENT
        week_key == WeekKey(now)
        weekly_stat == Get(weekly_stats, week_key, TradeStats(now.day))
        weekly_loss_limit == account_equity * cfg.WEEKLY_LOSS_LIMIT_PERCENT
        lot_size == calculate_position_size(account_equity, signal.risk_points, market_info)
    IN  IF kill_switch_active
        THEN Rejected(KillSwitchMessage(kill_switch_reason))
        ELSE IF signal.signal = "NO_TRADE"
        THEN Rejected(Reason("no_trade", "", 0, 0))
        ELSE IF symbol_positions >= cfg.MAX_POSITIONS_PER_SYMBOL
        THEN Rejected(Reason("positions", signal.symbol, symbol_positions,
                             cfg.MAX_POSITIONS_PER_SYMBOL))
        ELSE IF daily_stat.total_trades >= cfg.MAX_TRADES_PER_DAY
        THEN Rejected(Reason("daily_trades", "", daily_stat.total_trades,
                             cfg.MAX_TRADES_PER_DAY))
        ELSE IF symbol_trades_today >= cfg.MAX_TRADES_PER_SYMBOL_PER_DAY
        THEN Rejected(Reason("symbol_trades", signal.symbol, symbol_trades_today,
                             cfg.MAX_TRADES_PER_SYMBOL_PER_DAY))
        ELSE IF spread > cfg.MAX_SPREAD_POINTS
        THEN Rejected(Reason("spread", "", spread, cfg.MAX_SPREAD_POINTS))
        ELSE IF 100 * Abs(daily_stat.total_loss) >= daily_loss_limit
        THEN Armed(Reason("daily_loss", "", 100 * Abs(daily_stat.total_loss),
                          daily_loss_limit))
        ELSE IF 100 * Abs(weekly_stat.total_loss) >= weekly_loss_limit
        THEN Armed(Reason("weekly_loss", "", 100 * Abs(weekly_stat.total_loss),
                          weekly_loss_limit))
        ELSE IF ~(cfg.TRADING_START_HOUR <= current_hour
                  /\ current_hour <= cfg.TRADING_END_HOUR)
        THEN Rejected(Reason("hours", "", cfg.TRADING_START_HOUR, cfg.TRADING_END_HOUR))
        ELSE IF lot_size <= 0
        THEN Rejected(Reason("lot", "", 0, 0))
        ELSE Approved(lot_size)

\* mutant: the spread check runs before the position-count check
spread_before_positions(signal, account_equity, current_positions, market_info, current_hour) ==
    IF /\ ~kill_switch_active
       /\ signal.signal # "NO_TRADE"
       /\ Get(market_info, "spread", 0) > TradingConfig.MAX_SPREAD_POINTS
    THEN Rejected(Reason("spread", "", Get(market_info, "spread", 0),
                         TradingConfig.MAX_SPREAD_POINTS))
    ELSE risk_checks(signal, account_equity, current_positions, market_info, current_hour)

\* mutant: the signal type is looked at before the kill switch
no_trade_before_kill_switch(signal, account_equity, current_positions, market_info, current_hour) ==
    IF signal.signal = "NO_TRADE"
    THEN Rejected(Reason("no_trade", "", 0, 0))
    ELSE risk_checks(signal, account_equity, current_positions, market_info, current_hour)

\* mutant: a daily-loss breach is rejected without _activate_kill_switch
daily_breach_not_armed(signal, account_equity, current_positions, market_info, current_hour) ==
    LET outcome == risk_checks(signal, account_equity, current_positions,
                               market_info, current_hour)
    IN  IF outcome.arm /\ outcome.reason.text = "daily_loss"
        THEN [outcome EXCEPT !.arm = FALSE]
        ELSE outcome

\* mutant: the per-symbol count is checked before the day's total
symbol_count_before_daily_count(signal, account_equity, current_positions, market_info, current_hour) ==
    LET daily_stat == Get(daily_stats, DayKey(now), TradeStats(now.day))
        symbol_trades_today == Get(daily_stat.symbols_traded, signal.symbol, 0)
    IN  IF /\ ~kill_switch_active
           /\ signal.signal # "NO_TRADE"
           /\ Get(current_positions, signal.symbol, 0) < TradingConfig.MAX_POSITIONS_PER_SYMBOL
           /\ symbol_trades_today >= TradingConfig.MAX_TRADES_PER_SYMBOL_PER_DAY
        THEN Rejected(Reason("symbol_trades", signal.symbol, symbol_trades_today,
                             TradingConfig.MAX_TRADES_PER_SYMBOL_PER_DAY))
        ELSE risk_checks(signal, account_equity, current_positions, market_info, current_hour)

check_signal_outcome(signal, account_equity, current_positions, market_info, current_hour) ==
    risk_checks(signal, account_equity, current_positions, market_info, current_hour)

_activate_kill_switch(reason) ==
    /\ kill_switch_active' = TRUE
    /\ kill_switch_reason' = reason

\* mutant: a spread rejection arms the kill switch too
arm_on_spread_rejection(outcome) ==
    /\ IF outcome.arm \/ outcome.reason.text = "spread"
       THEN _activate_kill_switch(outcome.reason)
       ELSE UNCHANGED <<kill_switch_active, kill_switch_reason>>
    /\ UNCHANGED <<daily_stats, weekly_stats>>

\* mutant: the lookup of today's statistics stores the default it falls back to
check_signal_storing_default(outcome) ==
    /\ IF outcome.arm
       THEN _activate_kill_switch(outcome.reason)
       ELSE UNCHANGED <<kill_switch_active, kill_switch_reason>>
    /\ daily_stats' = Put(daily_stats, DayKey(now),
                          Get(daily_stats, DayKey(now), TradeStats(now.day)))
    /\ UNCHANGED weekly_stats

\* what check_signal leaves in the RiskManager
check_signal_effect(outcome) ==
    /\ IF outcome.arm
       THEN _activate_kill_switch(outcome.reason)
       ELSE UNCHANGED <<kill_switch_active, kill_switch_reason>>
    /\ UNCHANGED <<daily_stats, weekly_stats>>

check_signal(signal, account_equity, current_positions, market_info, current_hour) ==
    LET outcome == check_signal_outcome(signal, account_equity, current_positions,
                                        market_info, current_hour)
    IN  /\ check_signal_effect(outcome)
        /\ ret' = [op |-> "check_signal",
                   approved |-> outcome.approved, reason |-> outcome.reason,
                   lot |-> outcome.lot]
        /\ UNCHANGED <<TradingConfig, EXECUTION_MODE, now, execVars>>

-----------------------------------------------------------------------------
(* risk_manager.py: the other methods of RiskManager *)

record_trade_effect(symbol, profit_loss) ==
    /\ daily_stats' = record_daily(daily_stats, now, symbol, profit_loss)
    /\ weekly_stats' = record_weekly(weekly_stats, now, symbol, profit_loss)
    /\ UNCHANGED <<kill_switch_active, kill_switch_reason>>

record_trade(symbol, profit_loss) ==
    /\ Recorded < MaxRecords
    /\ record_trade_effect(symbol, profit_loss)
    /\ ret' = [op |-> "record_trade", symbol |-> symbol, profit_loss |-> profit_loss]
    /\ UNCHANGED <<TradingConfig, EXECUTION_MODE, now, execVars>>

\* mutant: deactivation also forgets the recorded trades
deactivate_clearing_losses ==
    /\ kill_switch_active' = FALSE
    /\ kill_switch_reason' = NoReason
    /\ daily_stats' = EmptyDict
    /\ weekly_stats' = EmptyDict
    /\ ret' = [op |-> "deactivate_kill_switch"]
    /\ UNCHANGED <<TradingConfig, EXECUTION_MODE, now, execVars>>

deactivate_kill_switch ==
    /\ kill_switch_active' = FALSE
    /\ kill_switch_reason' = NoReason
    /\ ret' = [op |-> "deactivate_kill_switch"]
    /\ UNCHANGED <<TradingConfig, EXECUTION_MODE, now, daily_stats, weekly_stats, execVars>>

\* the dict both report getters build; win_rate is rounded to two decimals
\* and kept in hundredths of a percent
Report(key, stat) ==
    [ key            |-> key,
      total_trades   |-> stat.total_trades,
      winning_trades |-> stat.winning_trades,
      losing_trades  |-> stat.losing_trades,
      win_rate       |-> IF stat.total_trades = 0 THEN 0
                         ELSE Round(stat.winning_trades * 10000, stat.total_trades),
      total_profit   |-> stat.total_profit,
      total_loss     |-> stat.total_loss,
      net_profit     |-> FloatAdd(stat.total_profit, stat.total_loss),
      symbols_traded |-> stat.symbols_traded ]

\* An Optional argument is the set of its value: {} is None.
Value(optional) == CHOOSE v \in optional : TRUE

\* the dict get_daily_report(date) returns
daily_report(date) ==
    LET key == IF date = {} THEN DayKey(now) ELSE Value(date)
    IN  Report(key, Get(daily_stats, key, TradeStats(now.day)))

\* the dict get_weekly_report(week_key) returns
weekly_report(week_key) ==
    LET key == IF week_key = {} THEN WeekKey(now) ELSE Value(week_key)
    IN  Report(key, Get(weekly_stats, key, TradeStats(now.day)))

get_daily_report(date) ==
    /\ ret' = [op |-> "get_daily_report"]
    /\ UNCHANGED <<TradingConfig, EXECUTION_MODE, now, riskVars, execVars>>

get_weekly_report(week_key) ==
    /\ ret' = [op |-> "get_weekly_report"]
    /\ UNCHANGED <<TradingConfig, EXECUTION_MODE, now, riskVars, execVars>>

\* (acceptable, slippage) with the slippage as the fraction num / den, or the
\* ZeroDivisionError the division raises for point = 0
check_max_slippage(expected_price, executed_price, point) ==
    /\ ret' = IF point = 0
              THEN [op |-> "check_max_slippage", raised |-> TRUE]
              ELSE [op |-> "check_max_slippage", raised |-> FALSE,
                    acceptable |-> Abs(expected_price - executed_price)
                                     <= TradingConfig.MAX_SLIPPAGE_POINTS * point,
                    slippage |-> <<Abs(expected_price - executed_price), point>>]
    /\ UNCHANGED <<TradingConfig, EXECUTION_MODE, now, riskVars, execVars>>

position_size(equity, stop_distance, market_info) ==
    /\ ret' = [op |-> "calculate_position_size",
               lot |-> calculate_position_size(equity, stop_distance, market_info)]
    /\ UNCHANGED <<TradingConfig, EXECUTION_MODE, now, riskVars, execVars>>

-----------------------------------------------------------------------------
(* the environment: the calendar and the settings form *)

\* midnight passes; the new day lies in the same week or opens the next one
NextDay ==
    /\ now.day + 1 \in Days
    /\ \E w \in {now.week, now.week + 1} : now' = [day |-> now.day + 1, week |-> w]
    /\ ret' = [op |-> "midnight"]
    /\ UNCHANGED <<TradingConfig, EXECUTION_MODE, riskVars, execVars>>

\* gui.py save_settings: the form's values are written to TradingConfig
save_settings(settings) ==
    /\ TradingConfig' = settings
    /\ ret' = [op |-> "save_settings"]
    /\ UNCHANGED <<EXECUTION_MODE, now, riskVars, execVars>>

-----------------------------------------------------------------------------
(* The RiskManager under any sequence of calls *)

Init ==
    /\ TradingConfig = DefaultConfig
    /\ EXECUTION_MODE = "dry_run"
    /\ now = [day |-> 0, week |-> 0]
    /\ daily_stats = EmptyDict
    /\ weekly_stats = EmptyDict
    /\ kill_switch_active = FALSE
    /\ kill_switch_reason = NoReason
    /\ pending_tickets = EmptyDict
    /\ ticket_counter = 0
    /\ execution_log = <<>>
    /\ ret = [op |-> "init"]

CheckSignal ==
    \E signal \in Signals, account_equity \in Equities,
       current_positions \in PositionInputs, market_info \in MarketInfos,
       current_hour \in Hours :
        check_signal(signal, account_equity, current_positions, market_info, current_hour)

RecordTrade == \E trade \in TradeInputs : record_trade(trade[1], trade[2])

GetDailyReport == \E date \in {{}} \cup {{d} : d \in Days} : get_daily_report(date)

GetWeeklyReport == \E week_key \in {{}} \cup {{w} : w \in Days} : get_weekly_report(week_key)

CheckMaxSlippage ==
    \E expected_price \in {110000}, executed_price \in {110005, 110006},
       point \in {1} :
        check_max_slippage(expected_price, executed_price, point)

CalculatePositionSize ==
    \E equity \in Equities, stop_distance \in {0, 500}, market_info \in {StandardMarket} :
        position_size(equity, stop_distance, market_info)

SaveSettings == \E settings \in SettingsInputs : save_settings(settings)

Next ==
    \/ CheckSignal
    \/ RecordTrade
    \/ deactivate_kill_switch
    \/ GetDailyReport
    \/ GetWeeklyReport
    \/ CheckMaxSlippage
    \/ CalculatePositionSize
    \/ NextDay
    \/ SaveSettings

Spec == Init /\ [][Next]_vars

-----------------------------------------------------------------------------
(* The vocabulary of the properties *)

\* the arguments of one check_signal call
CheckInputs ==
    [ signal : Signals, account_equity : Equities, current_positions : PositionInputs,
      market_info : MarketInfos, current_hour : Hours ]

\* what check_signal(i) returns in the current state
Outcome(i) ==
    check_signal_outcome(i.signal, i.account_equity, i.current_positions,
                         i.market_info, i.current_hour)

\* the TradeStats of the current day and of the current week
Today == Get(daily_stats, DayKey(now), TradeStats(now.day))
ThisWeek == Get(weekly_stats, WeekKey(now), TradeStats(now.day))

\* check k of the specification's list fails for the arguments i
Fails(k, i) ==
    CASE k = 1 -> kill_switch_active
      [] k = 2 -> i.signal.signal = "NO_TRADE"
      [] k = 3 -> Get(i.current_positions, i.signal.symbol, 0)
                    >= TradingConfig.MAX_POSITIONS_PER_SYMBOL
      [] k = 4 -> Today.total_trades >= TradingConfig.MAX_TRADES_PER_DAY
      [] k = 5 -> Get(Today.symbols_traded, i.signal.symbol, 0)
                    >= TradingConfig.MAX_TRADES_PER_SYMBOL_PER_DAY
      [] k = 6 -> Get(i.market_info, "spread", 0) > TradingConfig.MAX_SPREAD_POINTS
      [] k = 7 -> 100 * Abs(Today.total_loss)
                    >= i.account_equity * TradingConfig.DAILY_LOSS_LIMIT_PERCENT
      [] k = 8 -> 100 * Abs(ThisWeek.total_loss)
                    >= i.account_equity * TradingConfig.WEEKLY_LOSS_LIMIT_PERCENT
      [] k = 9 -> \/ i.current_hour < TradingConfig.TRADING_START_HOUR
                  \/ i.current_hour > TradingConfig.TRADING_END_HOUR
      [] k = 10 -> calculate_position_size(i.account_equity, i.signal.risk_points,
                                           i.market_info) <= 0

\* the check a reason string belongs to; 0 for the approval's
StepOf(reason) ==
    IF reason.prefix # "" THEN 1
    ELSE CASE reason.text = "no_trade" -> 2
           [] reason.text = "positions" -> 3
           [] reason.text = "daily_trades" -> 4
           [] reason.text = "symbol_trades" -> 5
           [] reason.text = "spread" -> 6
           [] reason.text = "daily_loss" -> 7
           [] reason.text = "weekly_loss" -> 8
           [] reason.text = "hours" -> 9
           [] reason.text = "lot" -> 10
           [] OTHER -> 0

Least(S) == CHOOSE k \in S : \A j \in S : k <= j

\* the step just taken is a check_signal call that armed the kill switch
ArmingStep ==
    /\ ret'.op = "check_signal"
    /\ ~kill_switch_active
    /\ StepOf(ret'.reason) \in {7, 8}

-----------------------------------------------------------------------------
(* C1: check_signal evaluates its ten checks in the listed order; the reason
   returned is that of the first failing check (so with the position-count
   and the spread check both failing it is never the spread reason), and the
   call approves exactly when no check fails. *)
C1_FirstFailingCheckWins ==
    \A i \in CheckInputs :
        LET failing == {k \in 1 .. 10 : Fails(k, i)}
            o == Outcome(i)
        IN  /\ failing = {} => o.approved /\ StepOf(o.reason) = 0
            /\ failing # {} => ~o.approved /\ StepOf(o.reason) = Least(failing)
            /\ Fails(3, i) /\ Fails(6, i) => StepOf(o.reason) # 6

\* a call whose position count and spread were both over the limit has
\* returned the position-count reason
C1_Witness ==
    /\ ret.op = "check_signal"
    /\ StepOf(ret.reason) = 3
    /\ \E i \in CheckInputs :
        /\ Fails(3, i) /\ Fails(6, i) /\ ~Fails(1, i) /\ ~Fails(2, i)
        /\ Outcome(i).reason = ret.reason

(* C2: once the kill switch is armed, every check_signal call returns
   (False, the kill-switch message with the stored reason, 0), whatever its
   arguments and whatever has happened to the losses or the date since, and
   the stored reason stays the same until deactivate_kill_switch. *)
C2_KillSwitchIdempotent ==
    [][ /\ (kill_switch_active /\ ret'.op = "check_signal") =>
            /\ ret'.approved = FALSE
            /\ ret'.reason = KillSwitchMessage(kill_switch_reason)
            /\ ret'.lot = 0
        /\ (kill_switch_active /\ ret'.op # "deactivate_kill_switch") =>
            /\ kill_switch_active'
            /\ kill_switch_reason' = kill_switch_reason ]_vars

\* a call is rejected by the armed switch in a new week without any loss
C2_Witness ==
    /\ kill_switch_active
    /\ ret.op = "check_signal"
    /\ ret.reason = KillSwitchMessage(kill_switch_reason)
    /\ Today.total_loss = 0
    /\ ThisWeek.total_loss = 0

(* C3: kill_switch_active turns true only in a check_signal call that ends
   at step 7 or 8 and turns false only in deactivate_kill_switch; every other
   call leaves kill_switch_active and kill_switch_reason unchanged. *)
C3_KillSwitchTransitions ==
    [][ /\ (~kill_switch_active /\ kill_switch_active') => ArmingStep
        /\ (kill_switch_active /\ ~kill_switch_active') =>
                ret'.op = "deactivate_kill_switch"
        /\ (~ArmingStep /\ ret'.op # "deactivate_kill_switch") =>
                UNCHANGED <<kill_switch_active, kill_switch_reason>> ]_vars

\* record_trade has run while the switch was armed and has left it armed
C3_Witness ==
    /\ kill_switch_active
    /\ ret.op = "record_trade"
    /\ kill_switch_reason # NoReason

(* C23: daily_stats and weekly_stats are written by record_trade only:
   check_signal, get_daily_report, get_weekly_report, check_max_slippage,
   calculate_position_size, deactivate_kill_switch and every other step
   leave both unchanged, and no step removes an entry. *)
C23_OnlyRecordTradeWritesStats ==
    [][ /\ ret'.op # "record_trade" => UNCHANGED <<daily_stats, weekly_stats>>
        /\ DOMAIN daily_stats \subseteq DOMAIN daily_stats'
        /\ DOMAIN weekly_stats \subseteq DOMAIN weekly_stats' ]_vars

\* check_signal has run on a day that has recorded trades
C23_Witness ==
    /\ ret.op = "check_signal"
    /\ DayKey(now) \in DOMAIN daily_stats
    /\ WeekKey(now) \in DOMAIN weekly_stats
    /\ Today.total_trades > 0

(* C4: with the kill switch off and checks 2-6 passing, a daily loss at or
   above equity * DAILY_LOSS_LIMIT_PERCENT / 100 arms the kill switch with a
   non-empty reason and rejects with lot 0; so does, when the daily check
   passes, a weekly loss at or above the weekly limit; with both losses below
   their limits the call does not arm the switch. *)
C4_LossBreachArms ==
    /\ [](\A i \in CheckInputs :
            (~kill_switch_active /\ \A k \in 2 .. 6 : ~Fails(k, i)) =>
                LET o == Outcome(i)
                IN  /\ Fails(7, i) =>
                        /\ o.arm /\ ~o.approved /\ o.lot = 0
                        /\ StepOf(o.reason) = 7
                    /\ (~Fails(7, i) /\ Fails(8, i)) =>
                        /\ o.arm /\ ~o.approved /\ o.lot = 0
                        /\ StepOf(o.reason) = 8
                    /\ (~Fails(7, i) /\ ~Fails(8, i)) => ~o.arm)
    /\ [][ (ret'.op = "check_signal" /\ ~kill_switch_active) =>
            IF StepOf(ret'.reason) \in {7, 8}
            THEN /\ kill_switch_active'
                 /\ kill_switch_reason' = ret'.reason
                 /\ kill_switch_reason' # NoReason
                 /\ ~ret'.approved /\ ret'.lot = 0
            ELSE ~kill_switch_active' ]_vars

\* the weekly limit has armed the switch in a call whose daily check passed
C4_Witness ==
    /\ kill_switch_active
    /\ ret.op = "check_signal"
    /\ StepOf(ret.reason) = 8
    /\ kill_switch_reason = ret.reason

(* C6: with MAX_TRADES_PER_DAY = 3, after three record_trade calls for EURUSD
   on the current day any BUY signal, for any symbol, with the kill switch
   off and the symbol's open positions below the limit, is rejected with the
   daily-trade-limit reason. *)
C6_DailyLimitAfterThreeTrades ==
    (/\ TradingConfig.MAX_TRADES_PER_DAY = 3
     /\ Get(Today.symbols_traded, "EURUSD", 0) >= 3
     /\ ~kill_switch_active) =>
        \A i \in CheckInputs :
            (i.signal.signal = "BUY" /\ ~Fails(3, i)) =>
                Outcome(i) = Rejected(Reason("daily_trades", "", Today.total_trades, 3))

\* after three EURUSD trades a BUY for GBPUSD has been rejected with the
\* daily-trade-limit reason
C6_Witness ==
    /\ ~kill_switch_active
    /\ Get(Today.symbols_traded, "EURUSD", 0) = 3
    /\ "GBPUSD" \notin DOMAIN Today.symbols_traded
    /\ ret.op = "check_signal"
    /\ StepOf(ret.reason) = 4
    /\ \E i \in CheckInputs :
        /\ i.signal = Signal("BUY", "GBPUSD", 500)
        /\ Outcome(i).reason = ret.reason

\* the six counters and sums of two TradeStats agree
SameStats(a, b) ==
    /\ a.total_trades = b.total_trades
    /\ a.winning_trades = b.winning_trades
    /\ a.losing_trades = b.losing_trades
    /\ a.total_profit = b.total_profit
    /\ a.total_loss = b.total_loss
    /\ a.symbols_traded = b.symbols_traded

\* what one record_trade call added to a TradeStats
Delta(before, after, symbol) ==
    [ total_trades |-> after.total_trades - before.total_trades,
      winning_trades |-> after.winning_trades - before.winning_trades,
      losing_trades |-> after.losing_trades - before.losing_trades,
      symbol_trades |-> Get(after.symbols_traded, symbol, 0)
                          - Get(before.symbols_traded, symbol, 0) ]

(* C7: a record_trade call with profit_loss = 0 adds one to total_trades and
   to the symbol's count and leaves both winning_trades and losing_trades as
   they were, in the day's and in the week's statistics; winning_trades
   counts the calls with profit_loss > 0 and losing_trades those with
   profit_loss < 0. *)
C7_ZeroIsNeitherWinNorLoss ==
    [][ ret'.op = "record_trade" =>
            LET d == Delta(Today, Today', ret'.symbol)
                w == Delta(ThisWeek, ThisWeek', ret'.symbol)
                expected == [ total_trades |-> 1,
                              winning_trades |-> IF ret'.profit_loss > 0 THEN 1 ELSE 0,
                              losing_trades |-> IF ret'.profit_loss < 0 THEN 1 ELSE 0,
                              symbol_trades |-> 1 ]
            IN  \A f \in DOMAIN expected :
                    d[f] = expected[f] /\ w[f] = expected[f] ]_vars

(* C8: every record_trade call applies the same update to the day's and to
   the week's TradeStats, and no call changes one without the other; while
   all recorded trades are of the current day and week, the two hold equal
   counts and equal sums. *)
C8_DailyWeeklyInLockstep ==
    /\ []((DOMAIN daily_stats \subseteq {DayKey(now)}
            /\ DOMAIN weekly_stats \subseteq {WeekKey(now)})
          => SameStats(Today, ThisWeek))
    /\ [][ /\ (daily_stats' # daily_stats) <=> (weekly_stats' # weekly_stats)
           /\ ret'.op = "record_trade" =>
                /\ Delta(Today, Today', ret'.symbol)
                     = Delta(ThisWeek, ThisWeek', ret'.symbol)
                /\ \E x \in {0, ret'.profit_loss} :
                        /\ Today'.total_profit = FloatAdd(Today.total_profit, x)
                        /\ ThisWeek'.total_profit = FloatAdd(ThisWeek.total_profit, x)
                /\ \E x \in {0, ret'.profit_loss} :
                        /\ Today'.total_loss = FloatAdd(Today.total_loss, x)
                        /\ ThisWeek'.total_loss = FloatAdd(ThisWeek.total_loss, x)
                /\ SameStats(Today, ThisWeek) => SameStats(Today', ThisWeek')
                /\ \A k \in DOMAIN daily_stats \ {DayKey(now)} :
                        daily_stats'[k] = daily_stats[k]
                /\ \A k \in DOMAIN weekly_stats \ {WeekKey(now)} :
                        weekly_stats'[k] = weekly_stats[k] ]_vars

\* a win and a loss recorded on the first day stand equally in both
C8_Witness ==
    /\ ret.op = "record_trade"
    /\ Today.winning_trades >= 1
    /\ Today.losing_trades >= 1
    /\ DOMAIN daily_stats = {DayKey(now)}
    /\ SameStats(Today, ThisWeek)

-----------------------------------------------------------------------------
(* calculate_position_size on its own: one call per set of arguments *)

SizeEquities == {100, 1000, 10000}
SizeStops == {-500, 0, 250, 350, 400, 500}
SizeMarkets ==
    { [k \in keys |-> m[k]] :
        keys \in {{"point", "volume_min", "volume_step"},
                  {"point", "tick_value", "volume_min", "volume_step"}},
        m \in [ point : {0, 1}, tick_value : {2}, volume_min : {1, 5},
                volume_step : {0, 1, 2} ] }
    \cup {StandardMarket}
SizeConfigs == {DefaultConfig, [DefaultConfig EXCEPT !.RISK_PER_TRADE_PERCENT = 2]}

InitSize ==
    /\ TradingConfig \in SizeConfigs
    /\ EXECUTION_MODE = "dry_run"
    /\ now = [day |-> 0, week |-> 0]
    /\ daily_stats = EmptyDict
    /\ weekly_stats = EmptyDict
    /\ kill_switch_active = FALSE
    /\ kill_switch_reason = NoReason
    /\ pending_tickets = EmptyDict
    /\ ticket_counter = 0
    /\ execution_log = <<>>
    /\ ret \in [ op : {"args"}, equity : SizeEquities, stop_distance : SizeStops,
                 market_info : SizeMarkets ]

\* the call with the drawn arguments
SizeCall ==
    /\ ret.op = "args"
    /\ ret' = [ op |-> "calculate_position_size", equity |-> ret.equity,
                stop_distance |-> ret.stop_distance, market_info |-> ret.market_info,
                lot |-> calculate_position_size(ret.equity, ret.stop_distance,
                                                ret.market_info) ]
    /\ UNCHANGED <<TradingConfig, EXECUTION_MODE, now, riskVars, execVars>>

NextSize == SizeCall

SpecSize == InitSize /\ [][NextSize]_vars

(* C10: calculate_position_size returns riskMoney / (stopDistancePoints *
   tickValue), raised to volume_min when lower, then rounded to the nearest
   multiple of volume_step; equity 10000 at 1 % with a 500-point stop and
   tick value 1.0 gives 0.20 lot. *)
C10_PositionSizeFormula ==
    ret.op = "calculate_position_size" =>
        LET point == Get(ret.market_info, "point", 1)
            tick_value == Get(ret.market_info, "tick_value", 1)
            volume_min == Get(ret.market_info, "volume_min", 1)
            volume_step == Get(ret.market_info, "volume_step", 1)
            \* lot = n / d hundredths of a lot, d > 0
            stop_value == ret.stop_distance * tick_value
            d == Abs(stop_value)
            n == (IF stop_value < 0 THEN -1 ELSE 1)
                    * ret.equity * TradingConfig.RISK_PER_TRADE_PERCENT * point
            raised == IF n < volume_min * d THEN volume_min * d ELSE n
        IN  /\ (point # 0 /\ stop_value # 0 /\ volume_step # 0) =>
                /\ ret.lot % volume_step = 0
                /\ 2 * Abs(ret.lot * d - raised) <= volume_step * d
            /\ (/\ ret.equity = 10000
                /\ TradingConfig.RISK_PER_TRADE_PERCENT = 1
                /\ ret.stop_distance = 500
                /\ ret.market_info = StandardMarket) => ret.lot = 20

\* the call for equity 10000, a 500-point stop and tick value 1.0 has
\* returned 0.20 lot
C10_Witness ==
    /\ ret.op = "calculate_position_size"
    /\ ret.equity = 10000
    /\ TradingConfig.RISK_PER_TRADE_PERCENT = 1
    /\ ret.stop_distance = 500
    /\ ret.market_info = StandardMarket
    /\ ret.lot = 20

-----------------------------------------------------------------------------
(* record_trade on its own, with amounts of several magnitudes *)

WideTrades ==
    { <<"EURUSD", 1>>, <<"EURUSD", 2>>, <<"EURUSD", 8>>,
      <<"GBPUSD", -2>>, <<"GBPUSD", 8>> }

RecordWideTrade == \E trade \in WideTrades : record_trade(trade[1], trade[2])

NextRecord ==
    \/ RecordWideTrade
    \/ NextDay

SpecRecord == Init /\ [][NextRecord]_vars

\* the day's and the week's statistics after recording trade A and then
\* trade B
DailyAfter(A, B) ==
    record_daily(record_daily(daily_stats, now, A[1], A[2]),
                 now, B[1], B[2])[DayKey(now)]
WeeklyAfter(A, B) ==
    record_weekly(record_weekly(weekly_stats, now, A[1], A[2]),
                  now, B[1], B[2])[WeekKey(now)]

SameCounts(a, b) ==
    /\ a.total_trades = b.total_trades
    /\ a.winning_trades = b.winning_trades
    /\ a.losing_trades = b.losing_trades
    /\ a.symbols_traded = b.symbols_traded

SameSums(a, b) ==
    /\ a.total_profit = b.total_profit
    /\ a.total_loss = b.total_loss

\* x is a float of the model
IsFloat(x) == FloatAdd(x, 0) = x

\* no addition of A and B to the sums of stat, in either order, rounds
ExactSums(stat, A, B) ==
    LET gain(t) == IF t[2] > 0 THEN t[2] ELSE 0
        loss(t) == IF t[2] > 0 THEN 0 ELSE t[2]
    IN  /\ IsFloat(stat.total_profit + gain(A))
        /\ IsFloat(stat.total_profit + gain(B))
        /\ IsFloat(stat.total_profit + gain(A) + gain(B))
        /\ IsFloat(stat.total_loss + loss(A))
        /\ IsFloat(stat.total_loss + loss(B))
        /\ IsFloat(stat.total_loss + loss(A) + loss(B))

(* C9: for any two trades A and B, recording A then B leaves the same
   total_trades, winning_trades, losing_trades and per-symbol counts as
   recording B then A, from any state; the summed profit and loss are the
   same as well whenever none of the float additions involved rounds. *)
C9_CountsOrderIndependent ==
    \A A, B \in WideTrades :
        /\ SameCounts(DailyAfter(A, B), DailyAfter(B, A))
        /\ SameCounts(WeeklyAfter(A, B), WeeklyAfter(B, A))
        /\ ExactSums(Today, A, B) => SameSums(DailyAfter(A, B), DailyAfter(B, A))
        /\ ExactSums(ThisWeek, A, B) => SameSums(WeeklyAfter(A, B), WeeklyAfter(B, A))

\* a winning EURUSD trade and a losing GBPUSD trade have been recorded, and
\* the statistics are those of either order
C9_Witness ==
    \E A, B \in WideTrades :
        /\ A[1] # B[1] /\ A[2] > 0 /\ B[2] < 0
        /\ ret.op = "record_trade"
        /\ daily_stats
            = record_daily(record_daily(EmptyDict, now, A[1], A[2]), now, B[1], B[2])
        /\ daily_stats
            = record_daily(record_daily(EmptyDict, now, B[1], B[2]), now, A[1], A[2])

(* C9 as stated: recording A then B leaves the same counts and the same
   summed profit and loss as recording B then A, from any state. *)
C9_SumsOrderIndependent ==
    \A A, B \in WideTrades :
        /\ SameCounts(DailyAfter(A, B), DailyAfter(B, A))
        /\ SameSums(DailyAfter(A, B), DailyAfter(B, A))
        /\ SameCounts(WeeklyAfter(A, B), WeeklyAfter(B, A))
        /\ SameSums(WeeklyAfter(A, B), WeeklyAfter(B, A))

-----------------------------------------------------------------------------
(* execution_engine.py: ExecutionEngine over the RiskManager *)

\* the number of approved signals the model lets the engine handle, each
\* leaving a ticket or a log entry
MaxHandled == 2

\* what the terminal reports: the account (None when the query fails), the
\* symbol (None when it is unknown) and the outcome of send_order
AccountInfos == {{}} \cup {{[equity |-> e]} : e \in Equities}
SymbolInfos == {{}, {StandardMarket}}
OrderReplies ==
    { [success |-> TRUE, ticket_number |-> {1}],
      [success |-> FALSE, ticket_number |-> {}] }
ExecSignals == {Signal("BUY", "EURUSD", 500), Signal("NO_TRADE", "EURUSD", 0)}
ExecTrades == {<<"GBPUSD", -3>>}

TradeTicket(id, signal, lot_size) ==
    [ id |-> id, signal |-> signal, lot_size |-> lot_size,
      approved |-> FALSE, executed |-> FALSE, ticket_number |-> {} ]

\* the id "T<date>_<counter>" of a ticket
TicketId(t, counter) == <<DayKey(t), counter>>

Handled == ticket_counter + Len(execution_log)

\* the value process_signal and the ticket methods return, with whether
\* send_order was called and the kill switch's position at that call
Result(op, success, mode, sent, armed) ==
    [ op |-> op, success |-> success, mode |-> mode,
      send_order |-> sent, kill_switch |-> armed ]

\* mutant: the dry run also leaves a ticket to approve
dry_run_opening_ticket(signal, lot_size, reason) ==
    /\ Handled < MaxHandled
    /\ execution_log' = Append(execution_log,
            [ mode |-> "DRY_RUN", symbol |-> signal.symbol, lot_size |-> lot_size,
              executed |-> FALSE ])
    /\ ticket_counter' = ticket_counter + 1
    /\ pending_tickets' =
            Put(pending_tickets, TicketId(now, ticket_counter'),
                TradeTicket(TicketId(now, ticket_counter'), signal, lot_size))
    /\ ret' = Result("process_signal", TRUE, "DRY_RUN", FALSE, kill_switch_active)
    /\ UNCHANGED riskVars

_execute_dry_run(signal, lot_size, reason) ==
    /\ Handled < MaxHandled
    /\ execution_log' = Append(execution_log,
            [ mode |-> "DRY_RUN", symbol |-> signal.symbol, lot_size |-> lot_size,
              executed |-> FALSE ])
    /\ ret' = Result("process_signal", TRUE, "DRY_RUN", FALSE, kill_switch_active)
    /\ UNCHANGED <<pending_tickets, ticket_counter, riskVars>>

_execute_manual_confirm(signal, lot_size, reason) ==
    /\ Handled < MaxHandled
    /\ ticket_counter' = ticket_counter + 1
    /\ pending_tickets' =
            Put(pending_tickets, TicketId(now, ticket_counter'),
                TradeTicket(TicketId(now, ticket_counter'), signal, lot_size))
    /\ ret' = Result("process_signal", TRUE, "MANUAL_CONFIRM", FALSE, kill_switch_active)
    /\ UNCHANGED <<execution_log, riskVars>>

\* mutant: the AUTO branch records the order with a loss
execute_auto_recording_loss(signal, lot_size, market_info, reply) ==
    /\ Handled < MaxHandled
    /\ execution_log' = Append(execution_log,
            [ mode |-> "AUTO", symbol |-> signal.symbol, lot_size |-> lot_size,
              executed |-> reply.success ])
    /\ IF reply.success
       THEN Recorded < MaxRecords /\ record_trade_effect(signal.symbol, -3)
       ELSE UNCHANGED riskVars
    /\ ret' = Result("process_signal", reply.success, "AUTO", TRUE, kill_switch_active)
    /\ UNCHANGED <<pending_tickets, ticket_counter>>

\* the risk check approved, so it left the RiskManager as it was; a
\* successful order is recorded with profit_loss 0.0
_execute_auto(signal, lot_size, market_info, reply) ==
    /\ Handled < MaxHandled
    /\ execution_log' = Append(execution_log,
            [ mode |-> "AUTO", symbol |-> signal.symbol, lot_size |-> lot_size,
              executed |-> reply.success ])
    /\ IF reply.success
       THEN Recorded < MaxRecords /\ record_trade_effect(signal.symbol, 0)
       ELSE UNCHANGED riskVars
    /\ ret' = Result("process_signal", reply.success, "AUTO", TRUE, kill_switch_active)
    /\ UNCHANGED <<pending_tickets, ticket_counter>>

process_signal(signal, account_info, market_info, current_positions, current_hour, reply) ==
    /\ UNCHANGED <<TradingConfig, EXECUTION_MODE, now>>
    /\ IF account_info = {} \/ market_info = {}
       THEN /\ ret' = Result("process_signal", FALSE, "", FALSE, kill_switch_active)
            /\ UNCHANGED <<riskVars, execVars>>
       ELSE LET outcome == check_signal_outcome(signal, Value(account_info).equity,
                                                current_positions, Value(market_info),
                                                current_hour)
            IN  IF ~outcome.approved
                THEN /\ check_signal_effect(outcome)
                     /\ ret' = Result("process_signal", FALSE, "", FALSE,
                                      kill_switch_active')
                     /\ UNCHANGED execVars
                ELSE CASE EXECUTION_MODE = "dry_run" ->
                            _execute_dry_run(signal, outcome.lot, outcome.reason)
                       [] EXECUTION_MODE = "manual_confirm" ->
                            _execute_manual_confirm(signal, outcome.lot, outcome.reason)
                       [] EXECUTION_MODE = "auto" ->
                            _execute_auto(signal, outcome.lot, Value(market_info), reply)

\* mutant: a ticket whose order failed stays open for another approval
approve_ticket_retrying(ticket_id, reply) ==
    /\ UNCHANGED <<TradingConfig, EXECUTION_MODE, now, ticket_counter, execution_log>>
    /\ IF ticket_id \notin DOMAIN pending_tickets
       THEN /\ ret' = Result("approve_ticket", FALSE, "unknown", FALSE, kill_switch_active)
            /\ UNCHANGED <<riskVars, pending_tickets>>
       ELSE IF pending_tickets[ticket_id].executed
       THEN /\ ret' = Result("approve_ticket", FALSE, "executed", FALSE, kill_switch_active)
            /\ UNCHANGED <<riskVars, pending_tickets>>
       ELSE /\ pending_tickets' =
                    [pending_tickets EXCEPT ![ticket_id] =
                        [@ EXCEPT !.approved = TRUE, !.executed = reply.success,
                                  !.ticket_number = reply.ticket_number]]
            /\ IF reply.success
               THEN /\ Recorded < MaxRecords
                    /\ record_trade_effect(pending_tickets[ticket_id].signal.symbol, 0)
               ELSE UNCHANGED riskVars
            /\ ret' = Result("approve_ticket", reply.success, "sent", TRUE,
                             kill_switch_active)

approve_ticket(ticket_id, reply) ==
    /\ UNCHANGED <<TradingConfig, EXECUTION_MODE, now, ticket_counter, execution_log>>
    /\ IF ticket_id \notin DOMAIN pending_tickets
       THEN /\ ret' = Result("approve_ticket", FALSE, "unknown", FALSE, kill_switch_active)
            /\ UNCHANGED <<riskVars, pending_tickets>>
       ELSE IF pending_tickets[ticket_id].executed
       THEN /\ ret' = Result("approve_ticket", FALSE, "executed", FALSE, kill_switch_active)
            /\ UNCHANGED <<riskVars, pending_tickets>>
       ELSE /\ pending_tickets' =
                    [pending_tickets EXCEPT ![ticket_id] =
                        [@ EXCEPT !.approved = TRUE, !.executed = TRUE,
                                  !.ticket_number = reply.ticket_number]]
            /\ IF reply.success
               THEN /\ Recorded < MaxRecords
                    /\ record_trade_effect(pending_tickets[ticket_id].signal.symbol, 0)
               ELSE UNCHANGED riskVars
            /\ ret' = Result("approve_ticket", reply.success, "sent", TRUE,
                             kill_switch_active)

reject_ticket(ticket_id) ==
    /\ UNCHANGED <<TradingConfig, EXECUTION_MODE, now, riskVars, ticket_counter,
                   execution_log>>
    /\ IF ticket_id \notin DOMAIN pending_tickets
       THEN /\ ret' = Result("reject_ticket", FALSE, "unknown", FALSE, kill_switch_active)
            /\ UNCHANGED pending_tickets
       ELSE IF pending_tickets[ticket_id].executed
       THEN /\ ret' = Result("reject_ticket", FALSE, "executed", FALSE, kill_switch_active)
            /\ UNCHANGED pending_tickets
       ELSE /\ pending_tickets' =
                    [k \in DOMAIN pending_tickets \ {ticket_id} |-> pending_tickets[k]]
            /\ ret' = Result("reject_ticket", TRUE, "deleted", FALSE, kill_switch_active)

set_execution_mode(mode) ==
    /\ EXECUTION_MODE' = mode
    /\ ret' = [op |-> "set_execution_mode"]
    /\ UNCHANGED <<TradingConfig, now, riskVars, execVars>>

\* the ids a caller can name: those of the tickets and one of no ticket
TicketIds == DOMAIN pending_tickets \cup {TicketId(now, 0)}

ProcessSignal ==
    \E signal \in ExecSignals, account_info \in AccountInfos, market_info \in SymbolInfos,
       reply \in OrderReplies :
        process_signal(signal, account_info, market_info, EmptyDict, 8, reply)

ApproveTicket ==
    \E ticket_id \in TicketIds, reply \in OrderReplies : approve_ticket(ticket_id, reply)

RejectTicket == \E ticket_id \in TicketIds : reject_ticket(ticket_id)

SetExecutionMode == \E mode \in ExecutionMode : set_execution_mode(mode)

RecordLoss == \E trade \in ExecTrades : record_trade(trade[1], trade[2])

CheckExecSignal ==
    \E signal \in ExecSignals, account_info \in AccountInfos \ {{}} :
        check_signal(signal, Value(account_info).equity, EmptyDict, StandardMarket, 8)

NextExec ==
    \/ ProcessSignal
    \/ ApproveTicket
    \/ RejectTicket
    \/ SetExecutionMode
    \/ RecordLoss
    \/ CheckExecSignal
    \/ deactivate_kill_switch

SpecExec == Init /\ [][NextExec]_vars

(* C5: while the kill switch is active no order reaches the broker: in any
   interleaving of process_signal, approve_ticket, reject_ticket,
   record_trade and check_signal, send_order is never called in a state
   where kill_switch_active is true, approve_ticket on a ticket created
   before the switch was armed included. *)
C5_NoOrderWhileKillSwitchActive ==
    ret.op \in {"process_signal", "approve_ticket"} =>
        ~(ret.send_order /\ ret.kill_switch)

(* C24: the execution mode only decides whether an approved signal is
   sent. In DRY_RUN mode process_signal calls neither send_order nor
   record_trade and creates no ticket: it appends at most one log entry. In
   MANUAL_CONFIRM mode process_signal itself does not call send_order. In
   every mode the signal is handed to the mode's branch exactly when
   check_signal approves it, with the lot check_signal computed. *)
C24_ModeOnlyGatesSending ==
    [][ ret'.op = "process_signal" =>
          /\ EXECUTION_MODE = "dry_run" =>
                /\ ~ret'.send_order
                /\ UNCHANGED <<daily_stats, weekly_stats, pending_tickets, ticket_counter>>
                /\ \/ execution_log' = execution_log
                   \/ /\ Len(execution_log') = Len(execution_log) + 1
                      /\ SubSeq(execution_log', 1, Len(execution_log)) = execution_log
          /\ EXECUTION_MODE = "manual_confirm" =>
                /\ ~ret'.send_order
                /\ UNCHANGED <<daily_stats, weekly_stats, execution_log>>
          /\ \A signal \in ExecSignals, account_info \in AccountInfos \ {{}},
                reply \in OrderReplies :
                process_signal(signal, account_info, {StandardMarket}, EmptyDict, 8, reply)
                  => LET o == check_signal_outcome(signal, Value(account_info).equity,
                                                   EmptyDict, StandardMarket, 8)
                     IN  /\ (ret'.mode # "") = o.approved
                         /\ o.approved /\ EXECUTION_MODE \in {"dry_run", "auto"} =>
                               execution_log'[Len(execution_log')].lot_size = o.lot
                         /\ o.approved /\ EXECUTION_MODE = "manual_confirm" =>
                               pending_tickets'[TicketId(now, ticket_counter')].lot_size
                                 = o.lot
      ]_vars

\* an approved signal was logged by a dry run after a manual-confirm ticket
C24_Witness ==
    /\ ret.op = "process_signal"
    /\ ret.mode = "DRY_RUN"
    /\ ret.success /\ ~ret.send_order
    /\ Len(execution_log) = 1
    /\ ticket_counter = 1
    /\ \A d \in DOMAIN daily_stats : daily_stats[d].total_trades = 0

-----------------------------------------------------------------------------
(* the ExecutionEngine alone: every record_trade call is the engine's own
   (execution_engine.py 240 and 297 are the only calls in the program) *)

\* limits the settings form accepts (each spinbox starts at 1)
EngineConfigs ==
    { DefaultConfig,
      [DefaultConfig EXCEPT !.MAX_TRADES_PER_DAY = 1],
      [DefaultConfig EXCEPT !.MAX_TRADES_PER_SYMBOL_PER_DAY = 3] }

InitEngine ==
    /\ TradingConfig \in EngineConfigs
    /\ EXECUTION_MODE = "dry_run"
    /\ now = [day |-> 0, week |-> 0]
    /\ daily_stats = EmptyDict
    /\ weekly_stats = EmptyDict
    /\ kill_switch_active = FALSE
    /\ kill_switch_reason = NoReason
    /\ pending_tickets = EmptyDict
    /\ ticket_counter = 0
    /\ execution_log = <<>>
    /\ ret = [op |-> "init"]

NextEngine ==
    \/ ProcessSignal
    \/ ApproveTicket
    \/ RejectTicket
    \/ SetExecutionMode
    \/ deactivate_kill_switch

SpecEngine == InitEngine /\ [][NextEngine]_vars

\* the orders the broker accepted: AUTO sends that succeeded and approved
\* tickets that carry the broker's ticket number
SentOrders ==
    Cardinality({i \in DOMAIN execution_log :
                    execution_log[i].mode = "AUTO" /\ execution_log[i].executed})
    + Cardinality({k \in DOMAIN pending_tickets : pending_tickets[k].ticket_number # {}})

\* C25: within one day the number of orders successfully sent to the
\* broker never exceeds MAX_TRADES_PER_DAY, tickets created in
\* MANUAL_CONFIRM mode and approved later included.
C25_SentWithinDailyLimit == SentOrders <= TradingConfig.MAX_TRADES_PER_DAY

(* C27: the engine records every sent order with profit/loss 0.0 and
   nothing else records a trade, so the daily and weekly total_loss stay 0
   and, the account equity being positive, the kill switch is never armed. *)
C27_NoLossNoKillSwitch ==
    /\ \A d \in DOMAIN daily_stats : daily_stats[d].total_loss = 0
    /\ \A w \in DOMAIN weekly_stats : weekly_stats[w].total_loss = 0
    /\ ~kill_switch_active

\* a second order passed the loss checks after the first was recorded
C27_Witness ==
    /\ ret.op = "process_signal"
    /\ ret.mode = "AUTO" /\ ret.success
    /\ Today.total_trades = 2
    /\ Today.losing_trades = 2
    /\ ThisWeek.total_loss = 0

-----------------------------------------------------------------------------
(* C11: every check_signal result that is not an approval is (False, a
   non-empty reason, 0); every approval carries a lot size > 0 that is the
   lot calculate_position_size computes for the signal's risk distance, and
   a signal whose entry equals its stop (risk distance 0) is never
   approved.  The division by a zero stop distance inside
   calculate_position_size ends in its except branch, not in the caller. *)
C11_ResultShape ==
    /\ \A i \in CheckInputs :
        LET o == Outcome(i)
        IN  IF o.approved
            THEN /\ o.lot > 0
                 /\ o.lot = calculate_position_size(i.account_equity,
                                                    i.signal.risk_points, i.market_info)
                 /\ i.signal.risk_points # 0
                 /\ ~o.arm
            ELSE /\ o.lot = 0
                 /\ o.reason # NoReason
                 /\ o.reason.text # ""
    /\ ret.op = "check_signal" =>
        IF ret.approved THEN ret.lot > 0
        ELSE ret.lot = 0 /\ ret.reason.text # ""

\* a call has approved with a positive lot while a SELL whose entry equals
\* its stop would be rejected for its lot size
C11_Witness ==
    /\ ret.op = "check_signal"
    /\ ret.approved
    /\ ret.lot > 0
    /\ \E i \in CheckInputs :
        /\ i.signal.signal = "SELL" /\ i.signal.risk_points = 0
        /\ StepOf(Outcome(i).reason) = 10

(* C29: send_order is called at most once for a ticket. approve_ticket on
   an open ticket sends the order and marks the ticket executed whether the
   order succeeded or not; on an executed ticket approve_ticket and
   reject_ticket fail without sending and without changing anything;
   reject_ticket on an open ticket removes it, and a removed id never comes
   back; an unknown id fails with no state change. *)
C29_TicketSentAtMostOnce ==
    [][ /\ ret'.op = "approve_ticket" =>
              \A ticket_id \in TicketIds, reply \in OrderReplies :
                  approve_ticket(ticket_id, reply) =>
                      IF /\ ticket_id \in DOMAIN pending_tickets
                         /\ ~pending_tickets[ticket_id].executed
                      THEN /\ ret'.send_order
                           /\ pending_tickets'[ticket_id].executed
                           /\ pending_tickets'[ticket_id].approved
                           /\ \A k \in DOMAIN pending_tickets \ {ticket_id} :
                                 pending_tickets'[k] = pending_tickets[k]
                      ELSE /\ ~ret'.send_order /\ ~ret'.success
                           /\ UNCHANGED <<riskVars, execVars>>
        /\ ret'.op = "reject_ticket" =>
              \A ticket_id \in TicketIds :
                  reject_ticket(ticket_id) =>
                      /\ ~ret'.send_order
                      /\ IF /\ ticket_id \in DOMAIN pending_tickets
                            /\ ~pending_tickets[ticket_id].executed
                         THEN /\ ret'.success
                              /\ DOMAIN pending_tickets'
                                    = DOMAIN pending_tickets \ {ticket_id}
                         ELSE /\ ~ret'.success
                              /\ UNCHANGED <<riskVars, execVars>>
        /\ \A k \in DOMAIN pending_tickets :
              pending_tickets[k].executed =>
                  /\ k \in DOMAIN pending_tickets'
                  /\ pending_tickets'[k] = pending_tickets[k]
        /\ \A c \in 1..ticket_counter :
              TicketId(now, c) \notin DOMAIN pending_tickets
                  => TicketId(now, c) \notin DOMAIN pending_tickets'
      ]_vars

\* a second approval of a ticket whose order failed was refused, after
\* another ticket was rejected and removed
C29_Witness ==
    /\ ret.op = "approve_ticket"
    /\ ret.mode = "executed"
    /\ ~ret.success /\ ~ret.send_order
    /\ ticket_counter = 2
    /\ DOMAIN pending_tickets = {TicketId(now, 2)}
    /\ pending_tickets[TicketId(now, 2)].executed
    /\ pending_tickets[TicketId(now, 2)].ticket_number = {}

(* C28: deactivate_kill_switch clears the flag and the reason and leaves
   the recorded losses; a check_signal call made while the day's or the
   week's recorded loss is at or above the limit for the supplied equity
   never approves, and when the switch is off and checks 2-6 pass it arms
   the kill switch again. *)
ExecCheckInputs ==
    [ signal : ExecSignals, account_equity : Equities, current_positions : {EmptyDict},
      market_info : {StandardMarket}, current_hour : {8} ]

C28_DeactivationKeepsLosses ==
    [][ /\ ret'.op = "deactivate_kill_switch" =>
              /\ ~kill_switch_active'
              /\ kill_switch_reason' = NoReason
              /\ UNCHANGED <<daily_stats, weekly_stats>>
        /\ ret'.op = "check_signal" =>
              \A i \in ExecCheckInputs :
                  /\ Fails(7, i) \/ Fails(8, i)
                  /\ check_signal(i.signal, i.account_equity, i.current_positions,
                                  i.market_info, i.current_hour)
                  => /\ ~ret'.approved
                     /\ ret'.lot = 0
                     /\ (~kill_switch_active /\ \A k \in 2..6 : ~Fails(k, i)) =>
                            /\ kill_switch_active'
                            /\ kill_switch_reason' # NoReason
      ]_vars

\* the switch has been turned off while the day's loss is still at the
\* limit: the next call that passes checks 2-6 arms it again
C28_Witness ==
    /\ ret.op = "deactivate_kill_switch"
    /\ ~kill_switch_active
    /\ Today.total_loss < 0
    /\ \E i \in ExecCheckInputs :
        /\ Fails(7, i)
        /\ \A k \in 2..6 : ~Fails(k, i)
        /\ Outcome(i).arm
        /\ ~Outcome(i).approved

(* C26: for every approved check_signal result the money at risk of the
   returned lot, lot * (risk_points / point) * tick_value, exceeds the budget
   equity * RISK_PER_TRADE_PERCENT / 100 by no more than one volume step's
   worth, and a lot raised to volume_min does not put the risk above the
   budget.  Both sides are multiplied by 100 * point. *)
C26_RiskWithinBudget ==
    ret.op = "check_signal" /\ ret.approved =>
    \A i \in CheckInputs :
        LET o == Outcome(i)
            point == Get(i.market_info, "point", 1)
            tick_value == Get(i.market_info, "tick_value", 1)
            volume_min == Get(i.market_info, "volume_min", 1)
            volume_step == Get(i.market_info, "volume_step", 1)
            per_lot == i.signal.risk_points * tick_value
            budget == i.account_equity * TradingConfig.RISK_PER_TRADE_PERCENT * point
        IN  o.approved /\ point > 0 /\ per_lot > 0 =>
                /\ o.lot * per_lot <= budget + volume_step * per_lot
                /\ budget < volume_min * per_lot => o.lot * per_lot <= budget

-----------------------------------------------------------------------------
(* config.py: StrategyType, StrategyConfigs; signal_engine.py: SignalEngine *)

\* the members of the enum StrategyType: attribute name -> value
StrategyType ==
    [ n \in {"MA_CROSSOVER", "DONCHIAN_BREAKOUT", "BOLLINGER_BANDS", "RSI_SWING",
             "MACD", "ATR_TRAILING", "SUPERTREND"} |->
        CASE n = "MA_CROSSOVER" -> "ma_crossover"
          [] n = "DONCHIAN_BREAKOUT" -> "donchian_breakout"
          [] n = "BOLLINGER_BANDS" -> "bollinger_bands"
          [] n = "RSI_SWING" -> "rsi_swing"
          [] n = "MACD" -> "macd"
          [] n = "ATR_TRAILING" -> "atr_trailing"
          [] n = "SUPERTREND" -> "supertrend" ]

\* the attribute access StrategyType.<name>: the member, or the
\* AttributeError an enum raises for a name it does not define
Raised(error, text) == [raised |-> TRUE, error |-> error, text |-> text]
Returned(value) == [raised |-> FALSE, value |-> value]
Member(name) ==
    IF name \in DOMAIN StrategyType
    THEN Returned(StrategyType[name])
    ELSE Raised("AttributeError", name)

\* the parameter tables of StrategyConfigs; the multipliers, std_dev and
\* risk_reward_ratio are in tenths
StrategyConfigs ==
    [ n \in DOMAIN StrategyType |->
        CASE n = "MA_CROSSOVER" ->
                [ fast_period |-> 10, slow_period |-> 30, ma_type |-> "EMA",
                  atr_period |-> 14, atr_multiplier |-> 20, risk_reward_ratio |-> 20 ]
          [] n = "DONCHIAN_BREAKOUT" ->
                [ entry_period |-> 20, exit_period |-> 10, atr_period |-> 14,
                  atr_multiplier |-> 20, risk_reward_ratio |-> 30 ]
          [] n = "BOLLINGER_BANDS" ->
                [ period |-> 20, std_dev |-> 20, rsi_period |-> 14, rsi_oversold |-> 30,
                  rsi_overbought |-> 70, atr_period |-> 14, atr_multiplier |-> 15,
                  risk_reward_ratio |-> 20 ]
          [] n = "RSI_SWING" ->
                [ rsi_period |-> 14, oversold_level |-> 30, overbought_level |-> 70,
                  exit_level |-> 50, atr_period |-> 14, atr_multiplier |-> 20,
                  risk_reward_ratio |-> 25 ]
          [] n = "MACD" ->
                [ fast_period |-> 12, slow_period |-> 26, signal_period |-> 9,
                  atr_period |-> 14, atr_multiplier |-> 20, risk_reward_ratio |-> 20 ]
          [] n = "ATR_TRAILING" ->
                [ atr_period |-> 14, atr_multiplier |-> 30, trend_ma_period |-> 50,
                  risk_reward_ratio |-> 30 ]
          [] n = "SUPERTREND" ->
                [ atr_period |-> 10, atr_multiplier |-> 30, risk_reward_ratio |-> 25 ] ]

\* get_strategy_config: config_map is a dict literal over seven members of
\* StrategyType; .get gives {} for any other key
\* an argument that cannot be a dict key (a list, say)
Unhashable == {"[]"}

get_strategy_config(table, strategy_type) ==
    LET config_map ==
            [ v \in {StrategyType[n] : n \in DOMAIN StrategyType} |->
                table[CHOOSE n \in DOMAIN StrategyType : StrategyType[n] = v] ]
    IN  IF strategy_type \in Unhashable
        THEN Raised("TypeError", "unhashable type")
        ELSE Returned(Get(config_map, strategy_type, EmptyDict))

\* the dict literal of SignalEngine.__init__, in the order it is written:
\* <<attribute of StrategyType, strategy class>>
StrategyMapLiteral ==
    << <<"MA_CROSSOVER", "Strategy1_MACrossover">>,
       <<"DONCHIAN_BREAKOUT", "Strategy2_DonchianBreakout">>,
       <<"BOLLINGER_BANDS", "Strategy3_BollingerBands">>,
       <<"RSI_SWING", "Strategy4_RSISwing">>,
       <<"MACD", "Strategy5_MACD">>,
       <<"ATR_TRAILING", "Strategy6_ATRTrailing">>,
       <<"SUPERTREND", "Strategy7_Supertrend">>,
       <<"ULTIMATE_ACCURACY", "Strategy8_UltimateAccuracy">>,
       <<"AI_MULTI_FACTOR", "Strategy9_AIMultiFactor">> >>

\* evaluating the first n entries of a dict literal: the dict, or the error
\* of the first key expression that raises
RECURSIVE DictLiteral(_, _)
DictLiteral(entries, n) ==
    IF n = 0 THEN Returned(EmptyDict)
    ELSE LET before == DictLiteral(entries, n - 1)
             key == Member(entries[n][1])
         IN  IF before.raised THEN before
             ELSE IF key.raised THEN key
             ELSE Returned(Put(before.value, key.value, entries[n][2]))

\* SignalEngine(): the instance with its strategy_map, or the error raised
\* by __init__
SignalEngine__init__ ==
    LET strategy_map == DictLiteral(StrategyMapLiteral, Len(StrategyMapLiteral))
    IN  IF strategy_map.raised THEN strategy_map
        ELSE Returned([strategy_map |-> strategy_map.value])


\* A reason text is the sequence of the pieces it is formatted from; it is
\* empty when every piece is
NonEmpty(reason) == \E n \in DOMAIN reason : reason[n] # ""

\* mutant: risk_reward_ratio is risk over reward
trading_signal_ratio_inverted(symbol, strategy, signal_data) ==
    LET entry_price == Get(signal_data, "entry_price", 0)
        stop_loss   == Get(signal_data, "stop_loss", 0)
        take_profit == Get(signal_data, "take_profit", 0)
        risk_points == IF entry_price > 0 THEN Abs(entry_price - stop_loss) ELSE 0
        reward_points == IF entry_price > 0 THEN Abs(take_profit - entry_price) ELSE 0
    IN  [ symbol |-> symbol, strategy |-> strategy,
          signal |-> Get(signal_data, "signal", "NO_TRADE"),
          entry_price |-> entry_price, stop_loss |-> stop_loss,
          take_profit |-> take_profit,
          atr |-> Get(signal_data, "atr", 0),
          reason |-> Get(signal_data, "reason", <<>>),
          risk_points |-> risk_points, reward_points |-> reward_points,
          risk_reward_ratio |-> IF risk_points > 0
                                THEN <<risk_points, reward_points>>
                                ELSE <<0, 1>> ]

\* TradingSignal.__init__; risk_reward_ratio is the fraction
\* <<reward_points, risk_points>>, or <<0, 1>> for the literal 0
TradingSignal(symbol, strategy, signal_data) ==
    LET entry_price == Get(signal_data, "entry_price", 0)
        stop_loss   == Get(signal_data, "stop_loss", 0)
        take_profit == Get(signal_data, "take_profit", 0)
        risk_points == IF entry_price > 0 THEN Abs(entry_price - stop_loss) ELSE 0
        reward_points == IF entry_price > 0 THEN Abs(take_profit - entry_price) ELSE 0
    IN  [ symbol |-> symbol, strategy |-> strategy,
          signal |-> Get(signal_data, "signal", "NO_TRADE"),
          entry_price |-> entry_price, stop_loss |-> stop_loss,
          take_profit |-> take_profit,
          atr |-> Get(signal_data, "atr", 0),
          reason |-> Get(signal_data, "reason", <<>>),
          risk_points |-> risk_points, reward_points |-> reward_points,
          risk_reward_ratio |-> IF risk_points > 0
                                THEN <<reward_points, risk_points>>
                                ELSE <<0, 1>> ]

\* the keyword arguments _execute_strategy reads from config for each
\* strategy, with the default of each config.get
StrategyArguments ==
    [ v \in {StrategyType[n] : n \in DOMAIN StrategyType} |->
        CASE v = "ma_crossover" ->
                [ fast_period |-> 10, slow_period |-> 30, atr_period |-> 14,
                  atr_multiplier |-> 20 ]
          [] v = "donchian_breakout" ->
                [ entry_period |-> 20, exit_period |-> 10, atr_period |-> 14,
                  atr_multiplier |-> 20 ]
          [] v = "bollinger_bands" ->
                [ period |-> 20, std_dev |-> 20, rsi_period |-> 14, rsi_oversold |-> 30,
                  rsi_overbought |-> 70, atr_period |-> 14, atr_multiplier |-> 15 ]
          [] v = "rsi_swing" ->
                [ rsi_period |-> 14, oversold_level |-> 30, overbought_level |-> 70,
                  exit_level |-> 50, atr_period |-> 14, atr_multiplier |-> 20 ]
          [] v = "macd" ->
                [ fast_period |-> 12, slow_period |-> 26, signal_period |-> 9,
                  atr_period |-> 14, atr_multiplier |-> 20 ]
          [] v = "atr_trailing" ->
                [ atr_period |-> 14, atr_multiplier |-> 30, trend_ma_period |-> 50 ]
          [] v = "supertrend" ->
                [ atr_period |-> 10, atr_multiplier |-> 30 ] ]

\* _execute_strategy: the branch of strategy_type reads its arguments from
\* config and calls the strategy, whose outcome is run; past the seven
\* branches the comparison with StrategyType.ULTIMATE_ACCURACY raises
_execute_strategy(strategy_class, strategy_type, config, run) ==
    IF strategy_type \in DOMAIN StrategyArguments
    THEN [ arguments |->
            [ k \in DOMAIN StrategyArguments[strategy_type] |->
                Get(config, k, StrategyArguments[strategy_type][k]) ],
           outcome |-> run ]
    ELSE [ arguments |-> EmptyDict,
           outcome |-> Raised("AttributeError", "ULTIMATE_ACCURACY") ]


\* mutant: the except branch builds the signal from an empty dict
generate_signal_error_without_reason(self, symbol, strategy_type, table, run) ==
    LET failed == [ signal |-> TradingSignal(symbol, strategy_type, EmptyDict),
                    called |-> FALSE, arguments |-> EmptyDict ]
        config == get_strategy_config(table, strategy_type)
        strategy_class == Get(self.strategy_map, strategy_type, "None")
        executed == _execute_strategy(strategy_class, strategy_type, config.value, run)
    IN  IF config.raised THEN failed
        ELSE IF strategy_class = "None"
        THEN [ signal |-> TradingSignal(symbol, strategy_type,
                            [signal |-> "NO_TRADE", reason |-> <<"strategy not found">>]),
               called |-> FALSE, arguments |-> EmptyDict ]
        ELSE IF executed.outcome.raised
        THEN [failed EXCEPT !.called = TRUE, !.arguments = executed.arguments]
        ELSE [ signal |-> TradingSignal(symbol, strategy_type, executed.outcome.value),
               called |-> TRUE, arguments |-> executed.arguments ]

\* generate_signal: the TradingSignal returned, with the arguments the
\* strategy was called with (called is FALSE when it was not called)
generate_signal(self, symbol, strategy_type, table, run) ==
    LET failed(e) ==
            [ signal |-> TradingSignal(symbol, strategy_type,
                            [signal |-> "NO_TRADE", reason |-> <<"error: ", e.text>>]),
              called |-> FALSE, arguments |-> EmptyDict ]
        config == get_strategy_config(table, strategy_type)
        strategy_class == Get(self.strategy_map, strategy_type, "None")
        executed == _execute_strategy(strategy_class, strategy_type, config.value, run)
    IN  IF config.raised THEN failed(config)
        ELSE IF strategy_class = "None"
        THEN [ signal |-> TradingSignal(symbol, strategy_type,
                            [signal |-> "NO_TRADE", reason |-> <<"strategy not found">>]),
               called |-> FALSE, arguments |-> EmptyDict ]
        ELSE IF executed.outcome.raised
        THEN [failed(executed.outcome) EXCEPT !.called = TRUE,
                                              !.arguments = executed.arguments]
        ELSE [ signal |-> TradingSignal(symbol, strategy_type, executed.outcome.value),
               called |-> TRUE, arguments |-> executed.arguments ]

\* mutant: each signal found is put at the head of the list
RECURSIVE scan_prepending(_, _, _, _, _)
scan_prepending(self, symbols, strategy_type, data_dict, table) ==
    IF symbols = <<>> THEN <<>>
    ELSE LET symbol == Head(symbols)
             rest == scan_prepending(self, Tail(symbols), strategy_type, data_dict, table)
         IN  IF symbol \notin DOMAIN data_dict THEN rest
             ELSE IF data_dict[symbol].bars < 50 THEN rest
             ELSE LET signal == generate_signal(self, symbol, strategy_type, table,
                                                data_dict[symbol].run).signal
                  IN  IF signal.signal # "NO_TRADE" THEN rest \o <<signal>> ELSE rest

\* scan_multiple_symbols: data_dict gives, for a symbol, the number of its
\* closing prices and what the strategy does on its data
RECURSIVE scan_multiple_symbols(_, _, _, _, _)
scan_multiple_symbols(self, symbols, strategy_type, data_dict, table) ==
    IF symbols = <<>> THEN <<>>
    ELSE LET symbol == Head(symbols)
             rest == scan_multiple_symbols(self, Tail(symbols), strategy_type,
                                           data_dict, table)
         IN  IF symbol \notin DOMAIN data_dict THEN rest
             ELSE IF data_dict[symbol].bars < 50 THEN rest
             ELSE LET signal == generate_signal(self, symbol, strategy_type, table,
                                                data_dict[symbol].run).signal
                  IN  IF signal.signal # "NO_TRADE" THEN <<signal>> \o rest ELSE rest

-----------------------------------------------------------------------------
(* The SignalEngine: construction, and generate_signal as a function of self *)

\* the longest symbol list scanned
MaxScan == 3
ScanSymbols == {"EURUSD", "GBPUSD", "USDJPY"}
ScanLists == UNION {[1 .. n -> ScanSymbols] : n \in 0 .. MaxScan}
ScanData ==
    { [bars |-> 49, run |-> Returned([signal |-> "BUY", entry_price |-> 1100,
                                      stop_loss |-> 1095, take_profit |-> 1110,
                                      reason |-> <<"crossover">>])],
      [bars |-> 50, run |-> Returned([signal |-> "BUY", entry_price |-> 1100,
                                      stop_loss |-> 1095, take_profit |-> 1110,
                                      reason |-> <<"crossover">>])],
      [bars |-> 50, run |-> Returned([signal |-> "SELL", entry_price |-> 1100,
                                      stop_loss |-> 1110, take_profit |-> 1095,
                                      reason |-> <<"crossover">>])],
      [bars |-> 50, run |-> Returned([signal |-> "NO_TRADE",
                                      reason |-> <<"no crossover">>])],
      [bars |-> 50, run |-> Raised("ValueError", "bad data")] }
ScanDicts == UNION {[known -> ScanData] : known \in SUBSET ScanSymbols}

\* an engine whose strategy_map holds the entries of the literal whose keys
\* StrategyType defines
Engines == {[strategy_map |-> DictLiteral(StrategyMapLiteral, 7).value]}

\* the identifiers a caller passes: the members, a value that is no member
\* and a value that is no dict key
StrategyInputs ==
    {StrategyType[n] : n \in DOMAIN StrategyType} \cup {"ultimate_accuracy"} \cup Unhashable

\* config.py as shipped, with a value edited, and with a parameter deleted
ConfigTables ==
    { StrategyConfigs,
      [StrategyConfigs EXCEPT !["MA_CROSSOVER"].fast_period = 5],
      [StrategyConfigs EXCEPT !["MA_CROSSOVER"] =
            [k \in DOMAIN @ \ {"fast_period"} |-> @[k]]] }

\* prices in units of 0.001; a verdict with prices, and one without
SignalPrices == {0, 1095, 1100, 1110}
Verdicts ==
    { [signal |-> "NO_TRADE", reason |-> <<"no crossover">>],
      [signal |-> "NO_TRADE", reason |-> <<>>] }
    \cup { [ signal |-> sig, entry_price |-> e, stop_loss |-> sl, take_profit |-> tp,
             atr |-> 2, reason |-> <<"crossover">> ] :
            sig \in {"BUY", "SELL"}, e \in SignalPrices, sl \in SignalPrices,
            tp \in SignalPrices }

\* what a strategy does when called: it raises or returns a verdict
StrategyRuns ==
    {Raised("ValueError", "bad data"), Raised("ValueError", "")}
    \cup {Returned(v) : v \in Verdicts}

\* the arguments of one call are drawn at the start
InitSignal ==
    /\ TradingConfig = DefaultConfig
    /\ EXECUTION_MODE = "dry_run"
    /\ now = [day |-> 0, week |-> 0]
    /\ daily_stats = EmptyDict
    /\ weekly_stats = EmptyDict
    /\ kill_switch_active = FALSE
    /\ kill_switch_reason = NoReason
    /\ pending_tickets = EmptyDict
    /\ ticket_counter = 0
    /\ execution_log = <<>>
    /\ ret \in [ op : {"args"}, self : Engines, strategy_type : StrategyInputs,
                 table : ConfigTables, run : StrategyRuns ]
               \cup [ op : {"scan_args"}, self : Engines, symbols : ScanLists,
                      data_dict : ScanDicts ]

NewSignalEngine ==
    /\ ret.op = "args"
    /\ ret' = [op |-> "SignalEngine", result |-> SignalEngine__init__]
    /\ UNCHANGED <<TradingConfig, EXECUTION_MODE, now, riskVars, execVars>>

GenerateSignal ==
    /\ ret.op = "args"
    /\ ret' = [ op |-> "generate_signal", strategy_type |-> ret.strategy_type,
                table |-> ret.table, run |-> ret.run,
                result |-> generate_signal(ret.self, "EURUSD", ret.strategy_type,
                                           ret.table, ret.run) ]
    /\ UNCHANGED <<TradingConfig, EXECUTION_MODE, now, riskVars, execVars>>

ScanMultipleSymbols ==
    /\ ret.op = "scan_args"
    /\ ret' = [ op |-> "scan_multiple_symbols", symbols |-> ret.symbols,
                data_dict |-> ret.data_dict,
                result |-> scan_multiple_symbols(ret.self, ret.symbols, "ma_crossover",
                                                 ret.data_dict, StrategyConfigs) ]
    /\ UNCHANGED <<TradingConfig, EXECUTION_MODE, now, riskVars, execVars>>

NextSignal ==
    \/ NewSignalEngine
    \/ GenerateSignal
    \/ ScanMultipleSymbols

SpecSignal == InitSignal /\ [][NextSignal]_vars


\* the strategies of the specification: <<attribute of StrategyType, class>>
NineStrategies == {StrategyMapLiteral[n] : n \in DOMAIN StrategyMapLiteral}

(* C13: each of the nine strategies is selectable by identifier: the
   identifier is defined, the dispatch table of SignalEngine maps it to its
   own implementation and the configuration table supplies its parameters,
   so that a SignalEngine can be constructed. *)
C13_NineStrategiesSelectable ==
    ret.op = "SignalEngine" =>
        /\ \A entry \in NineStrategies :
            /\ ~Member(entry[1]).raised
            /\ entry[1] \in DOMAIN StrategyConfigs
        /\ ~ret.result.raised
        /\ \A entry \in NineStrategies :
            ret.result.value.strategy_map[Member(entry[1]).value] = entry[2]


\* the cases of a generate_signal call, read from its arguments
IsMember(strategy_type) == \E n \in DOMAIN StrategyType : StrategyType[n] = strategy_type
ConfigOf(table, strategy_type) ==
    table[CHOOSE n \in DOMAIN StrategyType : StrategyType[n] = strategy_type]
ErrorRaised ==
    \/ ret.strategy_type \in Unhashable
    \/ IsMember(ret.strategy_type) /\ ret.run.raised
UnknownIdentifier == ~IsMember(ret.strategy_type) /\ ret.strategy_type \notin Unhashable
MissingParameter ==
    /\ IsMember(ret.strategy_type)
    /\ \E k \in DOMAIN StrategyArguments[ret.strategy_type] :
            k \notin DOMAIN ConfigOf(ret.table, ret.strategy_type)
IsNoTradeWithReason(signal) == signal.signal = "NO_TRADE" /\ NonEmpty(signal.reason)

(* C12: generate_signal never propagates an exception: an error raised
   while fetching the configuration or running the strategy, and an unknown
   strategy identifier, each yield a TradingSignal whose signal is NO_TRADE
   and whose reason is non-empty (carrying the error text); a parameter
   missing from the configuration is replaced by the default written in
   _execute_strategy, and the strategy runs and its verdict is returned. *)
C12_ErrorsBecomeNoTrade ==
    ret.op = "generate_signal" =>
        LET signal == ret.result.signal
        IN  /\ ErrorRaised =>
                /\ IsNoTradeWithReason(signal)
                /\ ret.run.raised /\ IsMember(ret.strategy_type)
                        => signal.reason[2] = ret.run.text
            /\ UnknownIdentifier => IsNoTradeWithReason(signal) /\ ~ret.result.called
            /\ (IsMember(ret.strategy_type) /\ ~ret.run.raised) =>
                /\ ret.result.called
                /\ signal.signal = ret.run.value.signal
                /\ \A k \in DOMAIN StrategyArguments[ret.strategy_type] :
                    ret.result.arguments[k] =
                        Get(ConfigOf(ret.table, ret.strategy_type), k,
                            StrategyArguments[ret.strategy_type][k])

\* a strategy has raised and the call has returned NO_TRADE with the error
\* text
C12_Witness ==
    /\ ret.op = "generate_signal"
    /\ ret.result.called
    /\ ret.run = Raised("ValueError", "bad data")
    /\ ret.result.signal.signal = "NO_TRADE"
    /\ ret.result.signal.reason = <<"error: ", "bad data">>

(* C12 as stated: an error, an unknown strategy identifier or a missing
   parameter each yield a NO_TRADE TradingSignal with a non-empty reason. *)
C12_MissingParameterIsNoTrade ==
    ret.op = "generate_signal" =>
        ((ErrorRaised \/ UnknownIdentifier \/ MissingParameter)
            => IsNoTradeWithReason(ret.result.signal))

(* C15: the TradingSignal built from a verdict whose entry price is positive
   has risk_points = |entry - stop|, reward_points = |target - entry| and
   risk_reward_ratio = reward_points / risk_points, or 0 when risk_points is
   0; built from a verdict whose entry price is not positive it has
   risk_points = reward_points = risk_reward_ratio = 0. *)
C15_RiskRewardOfPositiveEntry ==
    (ret.op = "generate_signal" /\ ret.result.called /\ ~ret.run.raised) =>
        LET verdict == ret.run.value
            entry == Get(verdict, "entry_price", 0)
            stop == Get(verdict, "stop_loss", 0)
            target == Get(verdict, "take_profit", 0)
            signal == ret.result.signal
            ratio == signal.risk_reward_ratio
        IN  /\ ratio[2] > 0
            /\ IF entry > 0
               THEN /\ signal.risk_points = Abs(entry - stop)
                    /\ signal.reward_points = Abs(target - entry)
                    /\ IF signal.risk_points = 0 THEN ratio[1] = 0
                       ELSE ratio[1] * signal.risk_points
                                = signal.reward_points * ratio[2]
               ELSE /\ signal.risk_points = 0
                    /\ signal.reward_points = 0
                    /\ ratio[1] = 0

\* a BUY at 1.100 with stop 1.095 and target 1.110 has risk 0.005, reward
\* 0.010 and ratio 2
C15_Witness ==
    /\ ret.op = "generate_signal"
    /\ ret.result.called
    /\ ret.result.signal.signal = "BUY"
    /\ ret.result.signal.entry_price = 1100
    /\ ret.result.signal.risk_points = 5
    /\ ret.result.signal.reward_points = 10
    /\ ret.result.signal.risk_reward_ratio = <<10, 5>>

(* C15 as stated: for every verdict, whatever its entry, stop and target,
   risk_points = |entry - stop|, reward_points = |target - entry| and
   risk_reward_ratio = reward_points / risk_points, or 0 when risk_points is
   0. *)
C15_RiskRewardOfAnyEntry ==
    (ret.op = "generate_signal" /\ ret.result.called /\ ~ret.run.raised) =>
        LET verdict == ret.run.value
            entry == Get(verdict, "entry_price", 0)
            stop == Get(verdict, "stop_loss", 0)
            target == Get(verdict, "take_profit", 0)
            signal == ret.result.signal
            ratio == signal.risk_reward_ratio
        IN  /\ signal.risk_points = Abs(entry - stop)
            /\ signal.reward_points = Abs(target - entry)
            /\ IF signal.risk_points = 0 THEN ratio[1] = 0
               ELSE ratio[1] * signal.risk_points = signal.reward_points * ratio[2]


(* C14: scan_multiple_symbols returns exactly the signals of the input
   symbols that have data, at least 50 closing prices and a signal other
   than NO_TRADE, in the order of the input list; a symbol with fewer than
   50 closes never appears and no NO_TRADE signal is returned. *)
C14_ScanKeepsOrder ==
    ret.op = "scan_multiple_symbols" =>
        LET signal(n) ==
                generate_signal(CHOOSE self \in Engines : TRUE, ret.symbols[n],
                                "ma_crossover", StrategyConfigs,
                                ret.data_dict[ret.symbols[n]].run).signal
            kept == { n \in DOMAIN ret.symbols :
                        /\ ret.symbols[n] \in DOMAIN ret.data_dict
                        /\ ret.data_dict[ret.symbols[n]].bars >= 50
                        /\ signal(n).signal # "NO_TRADE" }
        IN  /\ Len(ret.result) = Cardinality(kept)
            /\ \A n \in kept :
                ret.result[Cardinality({m \in kept : m <= n})] = signal(n)
            /\ \A k \in DOMAIN ret.result :
                /\ ret.result[k].signal # "NO_TRADE"
                /\ ret.data_dict[ret.result[k].symbol].bars >= 50

\* of three symbols the one with 49 closes is skipped and the other two are
\* returned in the order given
C14_Witness ==
    /\ ret.op = "scan_multiple_symbols"
    /\ ret.symbols = <<"GBPUSD", "USDJPY", "EURUSD">>
    /\ DOMAIN ret.data_dict = ScanSymbols
    /\ ret.data_dict["USDJPY"].bars = 49
    /\ Len(ret.result) = 2
    /\ ret.result[1].symbol = "GBPUSD" /\ ret.result[1].signal = "SELL"
    /\ ret.result[2].symbol = "EURUSD" /\ ret.result[2].signal = "BUY"


\* ---------------------------------------------------------------------------
\* strategies.py: Strategy9_AIMultiFactor
\* ---------------------------------------------------------------------------

\* The indicator and pattern helpers are the environment of the strategy: a
\* call of generate_signal is given the values they return on its bars.
\*   bars            len(close)
\*   hammer ..       results of the CandlestickPatterns predicates
\*   divergence      result of detect_divergence
\*   regime          result of market_regime_detection
\*   has_volume      volume is not None and len(volume) == len(close)
\*   quality         momentum_quality_index, in hundredths
\*   rsi             rsi[-1], in whole points
\*   probability_up  short-term probability_up, in halves of a point
\*   hurst           hurst exponent, in tenths
\*   above_cloud     close[-1] above the cloud top (or the 50-bar average)
\*   adx, di_plus, di_minus   last values of the adx outputs
\* Texts of the source that are not ASCII are given by an English gloss.

\* calculate_short_term_probability: probability_down = 100 - total_score
probability_down(probability_up) == 200 - probability_up

\* int(x * 5) of a number x given in halves: truncation towards zero
IntOfHalvesTimes5(h) ==
    IF h >= 0 THEN (h * 5) \div 2 ELSE -((-h * 5) \div 2)

\* str() of a score: a float once a divergence added 1.5 to the patterns
ScoreText(score, isFloat) ==
    IF isFloat THEN ToString(score) \o ".0" ELSE ToString(score)

min_score == 35

\* The two totals and the debug_info['scores'] table (lines 1584-1758)
Strategy9_scores(f) ==
    LET \* patterns are counted in halves
        bullish_patterns ==
            (IF f.hammer THEN 2 ELSE 0) + (IF f.bullish_engulfing THEN 2 ELSE 0)
            + (IF f.divergence.bullish THEN 3 ELSE 0)
        bearish_patterns ==
            (IF f.shooting_star THEN 2 ELSE 0) + (IF f.bearish_engulfing THEN 2 ELSE 0)
            + (IF f.divergence.bearish THEN 3 ELSE 0)
        regime_score == IF f.regime = "trending" THEN 10
                        ELSE IF f.regime = "volatile" THEN 5 ELSE 0
        momentum_quality == IF f.has_volume THEN f.quality ELSE f.rsi
        momentum == IF momentum_quality > 60 THEN <<20, 0>>
                    ELSE IF momentum_quality < 40 THEN <<0, 20>>
                    ELSE IF f.rsi > 50 THEN <<10, 0>> ELSE <<0, 10>>
        prob_bull == IF f.probability_up > 110
                     THEN IntOfHalvesTimes5(f.probability_up - 100) ELSE 0
        prob_bear == IF probability_down(f.probability_up) > 110
                     THEN IntOfHalvesTimes5(probability_down(f.probability_up) - 100)
                     ELSE 0
        is_trending == f.hurst > 5
        trend == IF is_trending /\ f.above_cloud THEN <<15, 0>>
                 ELSE IF is_trending /\ ~f.above_cloud THEN <<0, 15>>
                 ELSE IF f.above_cloud THEN <<8, 0>> ELSE <<0, 8>>
        adx == IF f.adx > 25 /\ f.di_plus > f.di_minus THEN <<15, 0>>
               ELSE IF f.adx > 25 /\ f.di_minus > f.di_plus THEN <<0, 15>>
               ELSE IF f.adx > 20
                    THEN IF f.di_plus > f.di_minus THEN <<8, 0>> ELSE <<0, 8>>
               ELSE <<0, 0>>
    IN  [ bullish |-> [ patterns |-> bullish_patterns * 5, regime |-> regime_score,
                        momentum |-> momentum[1], probability |-> prob_bull,
                        trend |-> trend[1], adx |-> adx[1],
                        isFloat |-> f.divergence.bullish,
                        total |-> bullish_patterns * 5 + regime_score + momentum[1]
                                  + prob_bull + trend[1] + adx[1] ],
          bearish |-> [ patterns |-> bearish_patterns * 5, regime |-> regime_score,
                        momentum |-> momentum[2], probability |-> prob_bear,
                        trend |-> trend[2], adx |-> adx[2],
                        isFloat |-> f.divergence.bearish,
                        total |-> bearish_patterns * 5 + regime_score + momentum[2]
                                  + prob_bear + trend[2] + adx[2] ] ]

\* create_reason (lines 1764-1779)
create_reason(score_type, scores, regime) ==
    LET s == scores[score_type]
        details == (IF s.patterns > 0 THEN <<"Pattern:">> ELSE <<>>)
                   \o (IF s.probability > 0 THEN <<"Prob:">> ELSE <<>>)
                   \o (IF s.momentum > 0 THEN <<"Mom:">> ELSE <<>>)
                   \o (IF s.trend > 0 THEN <<"Trend:">> ELSE <<>>)
                   \o (IF s.adx > 0 THEN <<"ADX:">> ELSE <<>>)
        detail_str == IF details # <<>> THEN details ELSE <<"no score">>
    IN  <<"AI Multi-Factor ", IF score_type = "bullish" THEN "BULLISH" ELSE "BEARISH",
          " | Score: ", ScoreText(s.total, s.isFloat), "/110 (">>
        \o detail_str \o <<") | Regime: ", regime>>

\* mutant: the bullish side also wins a tie
verdict_ties_buy(bullish_score, bearish_score) ==
    IF bullish_score >= min_score /\ bullish_score >= bearish_score THEN "BUY"
    ELSE IF bearish_score >= min_score /\ bearish_score > bullish_score THEN "SELL"
    ELSE "NO_TRADE"

\* The conditions of the final if / elif / fall-through (lines 1781-1803)
Strategy9_verdict(bullish_score, bearish_score) ==
    IF bullish_score >= min_score /\ bullish_score > bearish_score THEN "BUY"
    ELSE IF bearish_score >= min_score /\ bearish_score > bullish_score THEN "SELL"
    ELSE "NO_TRADE"

\* Strategy9_AIMultiFactor.generate_signal. Prices are in hundredths of the
\* unit of curr_close and curr_atr, atr_multiplier is in tenths.
Strategy9_generate_signal(f) ==
    IF f.bars < 100
    THEN [ signal |-> "NO_TRADE",
           reason |-> <<"not enough data (have ", ToString(f.bars),
                        " bars, need 100 bars)">> ]
    ELSE
    LET scores == Strategy9_scores(f)
        bullish_score == scores.bullish.total
        bearish_score == scores.bearish.total
        verdict == Strategy9_verdict(bullish_score, bearish_score)
        max_score == Max(bullish_score, bearish_score)
        score_type == IF bullish_score > bearish_score THEN "Bull" ELSE "Bear"
        maxFloat == IF bullish_score >= bearish_score /\ scores.bullish.isFloat
                    THEN TRUE
                    ELSE bearish_score >= bullish_score /\ scores.bearish.isFloat
        issues ==
            (IF scores.bullish.patterns = 0 /\ scores.bearish.patterns = 0
             THEN <<"no pattern found">> ELSE <<>>)
            \o (IF scores.bullish.probability < 15 /\ scores.bearish.probability < 15
                THEN <<"probability low">> ELSE <<>>)
            \o (IF ~f.has_volume THEN <<"no volume data">> ELSE <<>>)
            \o (IF f.adx < 20 THEN <<"ADX weak">> ELSE <<>>)
    IN  IF verdict = "BUY"
        THEN [ signal |-> "BUY",
               entry_price |-> f.curr_close * 100,
               stop_loss |-> f.curr_close * 100 - f.atr_multiplier * f.curr_atr * 10,
               take_profit |-> f.curr_close * 100 + f.atr_multiplier * f.curr_atr * 25,
               atr |-> f.curr_atr,
               reason |-> create_reason("bullish", scores, f.regime),
               debug |-> scores ]
        ELSE IF verdict = "SELL"
        THEN [ signal |-> "SELL",
               entry_price |-> f.curr_close * 100,
               stop_loss |-> f.curr_close * 100 + f.atr_multiplier * f.curr_atr * 10,
               take_profit |-> f.curr_close * 100 - f.atr_multiplier * f.curr_atr * 25,
               atr |-> f.curr_atr,
               reason |-> create_reason("bearish", scores, f.regime),
               debug |-> scores ]
        ELSE [ signal |-> "NO_TRADE",
               reason |-> <<"AI Multi-Factor: score too low (", score_type, ": ",
                            ScoreText(max_score, maxFloat), "/110, need ",
                            ToString(min_score), "+)">>
                          \o (IF issues # <<>> THEN <<"| issues: ">> \o issues
                              ELSE <<>>),
               debug |-> scores ]

\* --- The inputs of a Strategy9 call ----------------------------------------

\* is_bullish_engulfing and is_bearish_engulfing are called with
\* open_2 = close_1 = close[-2]: their last conjunct compares a value with
\* itself, so both return False on every series
PatternResults ==
    { [hammer |-> h, shooting_star |-> s, bullish_engulfing |-> FALSE,
       bearish_engulfing |-> FALSE, divergence |-> d] :
        h \in BOOLEAN, s \in BOOLEAN,
        d \in { [bullish |-> FALSE, bearish |-> FALSE],
                [bullish |-> TRUE, bearish |-> FALSE],
                [bullish |-> FALSE, bearish |-> TRUE] } }

Regimes == {"trending", "volatile", "ranging"}

MomentumResults ==
    { [has_volume |-> v, quality |-> q, rsi |-> r] :
        v \in BOOLEAN, q \in {30, 50}, r \in {45, 65} }

\* probability_up is a sum of six sub-scores; series of bars reach values
\* from 12.5 up to 90.0
Probabilities == {25, 89, 100, 110, 111, 180}

TrendResults == [ hurst : {4, 6}, above_cloud : BOOLEAN ]

AdxResults == { [adx |-> a, di_plus |-> p, di_minus |-> 20] :
                  a \in {15, 22, 30}, p \in {10, 30} }

Strategy9Inputs ==
    { [ bars |-> b, hammer |-> pt.hammer, shooting_star |-> pt.shooting_star,
        bullish_engulfing |-> pt.bullish_engulfing,
        bearish_engulfing |-> pt.bearish_engulfing, divergence |-> pt.divergence,
        regime |-> rg, has_volume |-> m.has_volume, quality |-> m.quality,
        rsi |-> m.rsi, probability_up |-> pr, hurst |-> tr.hurst,
        above_cloud |-> tr.above_cloud, adx |-> ad.adx, di_plus |-> ad.di_plus,
        di_minus |-> ad.di_minus, curr_close |-> 1100, curr_atr |-> 2,
        atr_multiplier |-> 20 ] :
        b \in {99, 100}, pt \in PatternResults, rg \in Regimes,
        m \in MomentumResults, pr \in Probabilities, tr \in TrendResults,
        ad \in AdxResults }

InitStrategy9 ==
    /\ TradingConfig = DefaultConfig
    /\ EXECUTION_MODE = "dry_run"
    /\ now = [day |-> 0, week |-> 0]
    /\ daily_stats = EmptyDict
    /\ weekly_stats = EmptyDict
    /\ kill_switch_active = FALSE
    /\ kill_switch_reason = NoReason
    /\ pending_tickets = EmptyDict
    /\ ticket_counter = 0
    /\ execution_log = <<>>
    /\ ret \in [ op : {"args"}, f : Strategy9Inputs ]

Strategy9GenerateSignal ==
    /\ ret.op = "args"
    /\ ret' = [ op |-> "Strategy9.generate_signal", f |-> ret.f,
                result |-> Strategy9_generate_signal(ret.f) ]
    /\ UNCHANGED <<TradingConfig, EXECUTION_MODE, now, riskVars, execVars>>

NextStrategy9 == Strategy9GenerateSignal

SpecStrategy9 == InitStrategy9 /\ [][NextStrategy9]_vars

\* C16: Strategy9 returns BUY exactly on a bullish total of at least 35 that
\* is strictly above the bearish total, SELL exactly on a bearish total of at
\* least 35 strictly above the bullish one, and NO_TRADE with a non-empty
\* reason in every other case, equal totals included.
C16_VerdictFollowsTotals ==
    ret.op = "Strategy9.generate_signal" /\ ret.f.bars >= 100 =>
        LET bull == Strategy9_scores(ret.f).bullish.total
            bear == Strategy9_scores(ret.f).bearish.total
            r    == ret.result
        IN  /\ r.signal = "BUY" <=> (bull >= 35 /\ bull > bear)
            /\ r.signal = "SELL" <=> (bear >= 35 /\ bear > bull)
            /\ r.signal \in {"BUY", "SELL", "NO_TRADE"}
            /\ r.signal = "NO_TRADE" => NonEmpty(r.reason)

\* two equal totals above the threshold were answered with NO_TRADE
C16_Witness ==
    /\ ret.op = "Strategy9.generate_signal"
    /\ ret.f.bars >= 100
    /\ Strategy9_scores(ret.f).bullish.total = Strategy9_scores(ret.f).bearish.total
    /\ Strategy9_scores(ret.f).bullish.total >= 35
    /\ ret.result.signal = "NO_TRADE"
    /\ NonEmpty(ret.result.reason)


\* C21: in Strategy9 the bullish total and the bearish total each lie
\* between 0 and 110 for every combination of sub-scores.
C21_TotalsWithin110 ==
    ret.op = "Strategy9.generate_signal" /\ ret.f.bars >= 100 =>
        /\ 0 <= ret.result.debug.bullish.total
        /\ ret.result.debug.bullish.total <= 110
        /\ 0 <= ret.result.debug.bearish.total
        /\ ret.result.debug.bearish.total <= 110

\* The totals are never negative
TotalsNotNegative ==
    ret.op = "Strategy9.generate_signal" /\ ret.f.bars >= 100 =>
        /\ 0 <= ret.result.debug.bullish.total
        /\ 0 <= ret.result.debug.bearish.total

\* ---------------------------------------------------------------------------
\* strategies.py: UltimateAccuracyScore.calculate_ultimate_score,
\* Strategy8_UltimateAccuracy
\* ---------------------------------------------------------------------------

\* As for Strategy9 the helpers are the environment; a call is given
\*   bars            len(close)
\*   short_up        short_term['probability_up'], in halves of a point
\*   long_up         long_term['probability_up'], in halves of a point
\*   hammer, shooting_star   results of the CandlestickPatterns predicates
\*   regime          result of market_regime_detection
\*   near_fib        close[-1] within half an ATR of a Fibonacci level
\*   hurst           hurst exponent, in tenths
\*   cloud           "above", "below" or "inside" the Ichimoku cloud
\*   tie             the side a round(x, 2) of a value halfway between two
\*                   hundredths falls to: it is the side of the binary float
\*                   that stands for the value, which can be either
\* Accuracies are in hundredths of a point, the composite in fortieths.

\* round(x, 2) of x = n / 40, in hundredths
Round2(n, tie) ==
    IF (n * 5) % 2 = 0 THEN (n * 5) \div 2
    ELSE (n * 5) \div 2 + tie

\* The result below 100 bars (lines 953-960)
InsufficientScore(bars) ==
    [ ultimate_accuracy |-> 5000, confidence_level |-> "very_low",
      direction |-> "neutral", recommendation |-> "wait",
      error |-> <<"not enough data (have ", ToString(bars),
                  " bars, need at least 100 bars)">> ]

\* The score from 100 bars on (lines 962-1057)
UltimateScoreOfFactors(f) ==
    LET \* both engulfing predicates are called with open_1 = open_2 and
        \* close_1 = close_2 and ask for opposite colours of the two candles
        bullish_pattern_score == IF f.hammer THEN 15 ELSE 0
        bearish_pattern_score == IF f.shooting_star THEN 15 ELSE 0
        pattern_confidence == Max(bullish_pattern_score, bearish_pattern_score)
        regime_score == IF f.regime = "trending" THEN 25
                        ELSE IF f.regime = "volatile" THEN 10 ELSE 0
        ai_score == (pattern_confidence + regime_score) * 2
        fib_score == IF f.near_fib THEN 25 ELSE 10
        hurst_score == IF f.hurst > 5 THEN 20 ELSE IF f.hurst < 5 THEN 10 ELSE 15
        \* ichimoku_score in halves; min(52, len(close) // 2) >= 30 from 100 bars on
        ichimoku_score == IF f.cloud = "above" THEN 50
                          ELSE IF f.cloud = "below" THEN 0 ELSE 25
        composite_accuracy == 6 * f.short_up + 6 * f.long_up + 8 * ai_score
                              + 4 * fib_score + 2 * hurst_score + ichimoku_score
        ultimate_accuracy == IF composite_accuracy < 4000 THEN composite_accuracy
                             ELSE 4000
        confidence_level == IF ultimate_accuracy >= 3600 THEN "very_high"
                            ELSE IF ultimate_accuracy >= 3000 THEN "high"
                            ELSE IF ultimate_accuracy >= 2400 THEN "medium"
                            ELSE IF ultimate_accuracy >= 1800 THEN "low"
                            ELSE "very_low"
        recommendation ==
            IF ultimate_accuracy >= 2800 /\ composite_accuracy > 2600
            THEN IF f.short_up > 120 THEN "strong_buy" ELSE "strong_sell"
            ELSE IF composite_accuracy > 2000
            THEN IF f.short_up > 100 THEN "buy" ELSE "sell"
            ELSE "wait"
    IN  [ ultimate_accuracy |-> Round2(ultimate_accuracy, f.tie),
          confidence_level |-> confidence_level,
          direction |-> IF recommendation = "wait" THEN "neutral" ELSE recommendation,
          recommendation |-> recommendation,
          short_term |-> f.short_up, long_term |-> f.long_up,
          ai_score |-> ai_score * 100,
          composite_accuracy |-> Round2(composite_accuracy, f.tie),
          market_regime |-> f.regime ]

\* mutant: the guard asks for 50 bars only
ultimate_score_from_50_bars(f) ==
    IF f.bars < 50 THEN InsufficientScore(f.bars) ELSE UltimateScoreOfFactors(f)

\* mutant: the composite is built on probability_down
ultimate_score_of_probability_down(f) ==
    IF f.bars < 100 THEN InsufficientScore(f.bars)
    ELSE UltimateScoreOfFactors([f EXCEPT !.short_up = 200 - @])

\* UltimateAccuracyScore.calculate_ultimate_score
calculate_ultimate_score(f) ==
    IF f.bars < 100 THEN InsufficientScore(f.bars) ELSE UltimateScoreOfFactors(f)

\* The verdict of a recommendation (lines 1494-1552); prices are in tenths
\* of the unit of curr_close and curr_atr, atr_multiplier is in tenths
Strategy8_on_recommendation(ultimate, f) ==
    LET recommendation == ultimate.recommendation
        entry == f.curr_close * 10
        stop  == f.atr_multiplier * f.curr_atr
        accuracy == ToString(ultimate.ultimate_accuracy)
    IN  IF recommendation = "strong_buy"
        THEN [ signal |-> "BUY", entry_price |-> entry, stop_loss |-> entry - stop,
               take_profit |-> entry + stop * 3, atr |-> f.curr_atr,
               reason |-> <<"Ultimate: STRONG BUY | Accuracy: ", accuracy, "% | ",
                            ultimate.confidence_level, " confidence">>,
               ultimate_data |-> ultimate ]
        ELSE IF recommendation = "buy"
        THEN [ signal |-> "BUY", entry_price |-> entry, stop_loss |-> entry - stop,
               take_profit |-> entry + stop * 2, atr |-> f.curr_atr,
               reason |-> <<"Ultimate: BUY | Accuracy: ", accuracy, "% | ",
                            ultimate.confidence_level>>,
               ultimate_data |-> ultimate ]
        ELSE IF recommendation = "strong_sell"
        THEN [ signal |-> "SELL", entry_price |-> entry, stop_loss |-> entry + stop,
               take_profit |-> entry - stop * 3, atr |-> f.curr_atr,
               reason |-> <<"Ultimate: STRONG SELL | Accuracy: ", accuracy, "% | ",
                            ultimate.confidence_level, " confidence">>,
               ultimate_data |-> ultimate ]
        ELSE IF recommendation = "sell"
        THEN [ signal |-> "SELL", entry_price |-> entry, stop_loss |-> entry + stop,
               take_profit |-> entry - stop * 2, atr |-> f.curr_atr,
               reason |-> <<"Ultimate: SELL | Accuracy: ", accuracy, "% | ",
                            ultimate.confidence_level>>,
               ultimate_data |-> ultimate ]
        ELSE [ signal |-> "NO_TRADE",
               reason |-> <<"Ultimate: WAIT | Accuracy: ", accuracy,
                            "% | signal not clear">>,
               ultimate_data |-> ultimate ]

\* mutant: the accuracy is not compared with min_accuracy
strategy8_without_threshold(ultimate, f) == Strategy8_on_recommendation(ultimate, f)

\* The accuracy threshold and what follows it (lines 1486-1552)
Strategy8_on_score(ultimate, f) ==
    IF ultimate.ultimate_accuracy < f.min_accuracy * 100
    THEN [ signal |-> "NO_TRADE",
           reason |-> <<"accuracy too low (", ToString(ultimate.ultimate_accuracy),
                        "% < ", ToString(f.min_accuracy), "%)">>,
           ultimate_data |-> ultimate ]
    ELSE Strategy8_on_recommendation(ultimate, f)

\* Strategy8_UltimateAccuracy.generate_signal
Strategy8_generate_signal(f) ==
    IF f.bars < 100
    THEN [ signal |-> "NO_TRADE",
           reason |-> <<"not enough data (have ", ToString(f.bars),
                        " bars, need at least 100 bars)">> ]
    ELSE Strategy8_on_score(calculate_ultimate_score(f), f)

\* --- The inputs of a Strategy8 call ----------------------------------------

ShortBars == {0, 99}

Strategy8Inputs ==
    [ bars : ShortBars \cup {100}, short_up : {70, 100, 102, 121, 160, 200},
      long_up : {60, 130, 200}, hammer : BOOLEAN, shooting_star : {FALSE},
      regime : Regimes, near_fib : BOOLEAN, hurst : {4, 5, 6},
      cloud : {"above", "below", "inside"}, tie : {0, 1},
      min_accuracy : {55, 75}, curr_close : {1100}, curr_atr : {2},
      atr_multiplier : {20} ]

InitStrategy8 ==
    /\ TradingConfig = DefaultConfig
    /\ EXECUTION_MODE = "dry_run"
    /\ now = [day |-> 0, week |-> 0]
    /\ daily_stats = EmptyDict
    /\ weekly_stats = EmptyDict
    /\ kill_switch_active = FALSE
    /\ kill_switch_reason = NoReason
    /\ pending_tickets = EmptyDict
    /\ ticket_counter = 0
    /\ execution_log = <<>>
    /\ ret \in [ op : {"args"}, f : Strategy8Inputs ]

CalculateUltimateScore ==
    /\ ret.op = "args"
    /\ ret' = [ op |-> "calculate_ultimate_score", f |-> ret.f,
                result |-> calculate_ultimate_score(ret.f) ]
    /\ UNCHANGED <<TradingConfig, EXECUTION_MODE, now, riskVars, execVars>>

Strategy8GenerateSignal ==
    /\ ret.op = "args"
    /\ ret' = [ op |-> "Strategy8.generate_signal", f |-> ret.f,
                result |-> Strategy8_generate_signal(ret.f) ]
    /\ UNCHANGED <<TradingConfig, EXECUTION_MODE, now, riskVars, execVars>>

NextStrategy8 == CalculateUltimateScore \/ Strategy8GenerateSignal

SpecStrategy8 == InitStrategy8 /\ [][NextStrategy8]_vars

\* C17: Strategy8 returns BUY or SELL only when ultimate_accuracy is not
\* below min_accuracy and the recommendation is not wait; strong_buy and buy
\* give BUY, strong_sell and sell give SELL; the take-profit distance is 3
\* times the stop distance for the strong recommendations and 2 times for
\* the plain ones; every other case is NO_TRADE with a non-empty reason.
C17_TradesAboveThreshold ==
    ret.op = "Strategy8.generate_signal" =>
        LET f == ret.f
            r == ret.result
            u == calculate_ultimate_score(f)
            tradable == /\ f.bars >= 100
                        /\ u.ultimate_accuracy >= f.min_accuracy * 100
                        /\ u.recommendation # "wait"
        IN  /\ r.signal \in {"BUY", "SELL", "NO_TRADE"}
            /\ r.signal = "BUY" <=> tradable /\ u.recommendation \in {"strong_buy", "buy"}
            /\ r.signal = "SELL" <=> tradable /\ u.recommendation \in {"strong_sell", "sell"}
            /\ r.signal # "NO_TRADE" =>
                 Abs(r.take_profit - r.entry_price)
                   = (IF u.recommendation \in {"strong_buy", "strong_sell"} THEN 3 ELSE 2)
                     * Abs(r.entry_price - r.stop_loss)
            /\ r.signal = "BUY" => r.stop_loss < r.entry_price /\ r.entry_price < r.take_profit
            /\ r.signal = "SELL" => r.take_profit < r.entry_price /\ r.entry_price < r.stop_loss
            /\ r.signal = "NO_TRADE" => NonEmpty(r.reason)

\* a plain buy above a lowered threshold was answered with BUY at 1:2
C17_Witness ==
    /\ ret.op = "Strategy8.generate_signal"
    /\ ret.f.min_accuracy = 55
    /\ ret.result.signal = "BUY"
    /\ ret.result.ultimate_data.recommendation = "buy"
    /\ ret.result.take_profit - ret.result.entry_price
         = 2 * (ret.result.entry_price - ret.result.stop_loss)
    /\ ret.result.entry_price > ret.result.stop_loss

\* C18: below 100 bars calculate_ultimate_score returns ultimate_accuracy
\* 50.0, confidence_level very_low, recommendation wait and a non-empty
\* error message, and Strategy8 returns NO_TRADE with a non-empty
\* insufficient-data reason; both are return values, not exceptions.
C18_NeutralBelow100Bars ==
    ret.op # "args" /\ ret.f.bars < 100 =>
        /\ ret.op = "calculate_ultimate_score" =>
             /\ ret.result.ultimate_accuracy = 5000
             /\ ret.result.confidence_level = "very_low"
             /\ ret.result.recommendation = "wait"
             /\ "error" \in DOMAIN ret.result
             /\ NonEmpty(ret.result.error)
        /\ ret.op = "Strategy8.generate_signal" =>
             /\ ret.result.signal = "NO_TRADE"
             /\ NonEmpty(ret.result.reason)
             /\ ret.result.reason[1] = "not enough data (have "

\* 99 bars were scored neutral
C18_Witness ==
    /\ ret.op = "calculate_ultimate_score"
    /\ ret.f.bars = 99
    /\ ret.result.ultimate_accuracy = 5000
    /\ ret.result.recommendation = "wait"
    /\ NonEmpty(ret.result.error)


\* --- Strategy8 at its default threshold --------------------------------------

\* probability_up of calculate_short_term_probability from 30 bars on: the
\* sum of its six sub-scores, in halves of a point (lines 715-800)
ShortTermTotals ==
    { trend + rsi + vol + bb + pattern + macd_score :
        trend \in {50, 0}, rsi \in {40, 30, 0, 10, 20}, vol \in {30, 20, 0, 15},
        bb \in {30, 24, 0, 6, 15}, pattern \in {30, 20, 0, 10},
        macd_score \in {20, 15, 0, 10} }

\* probability_up of calculate_long_term_probability from 100 bars on, in
\* halves of a point (lines 836-916)
LongTermTotals ==
    { trend + rsi + position + vol + adx + macd_score :
        trend \in {60, 40, 0, 20}, rsi \in {40, 30, 0, 10, 20},
        position \in {30, 24, 0, 6, 15}, vol \in {20, 14, 6, 10},
        adx \in {30, 0, 20, 10}, macd_score \in {20, 14, 0, 6} }

\* the long-term totals of a run: the lowest, the middle and the highest
LongTermSamples == { t \in LongTermTotals : t = 6 \/ t = 100 \/ t >= 194 }

DefaultThresholdInputs ==
    [ bars : {100}, short_up : ShortTermTotals, long_up : LongTermSamples,
      hammer : BOOLEAN, shooting_star : BOOLEAN, regime : Regimes,
      near_fib : BOOLEAN, hurst : {4, 5, 6}, cloud : {"above", "below", "inside"},
      tie : {0, 1}, min_accuracy : {75}, curr_close : {1100}, curr_atr : {2},
      atr_multiplier : {20} ]

InitDefaultThreshold ==
    /\ TradingConfig = DefaultConfig
    /\ EXECUTION_MODE = "dry_run"
    /\ now = [day |-> 0, week |-> 0]
    /\ daily_stats = EmptyDict
    /\ weekly_stats = EmptyDict
    /\ kill_switch_active = FALSE
    /\ kill_switch_reason = NoReason
    /\ pending_tickets = EmptyDict
    /\ ticket_counter = 0
    /\ execution_log = <<>>
    /\ ret \in [ op : {"args"}, f : DefaultThresholdInputs ]

NextDefaultThreshold == Strategy8GenerateSignal

SpecDefaultThreshold == InitDefaultThreshold /\ [][NextDefaultThreshold]_vars

\* C30: with min_accuracy at its default of 75 Strategy8 never returns SELL
\* and never uses the plain 1:2 target: an ultimate_accuracy of 75 or more
\* needs a short-term probability_up above 60, so the only recommendation
\* that trades is strong_buy.
C30_DefaultThresholdOnlyStrongBuy ==
    ret.op = "Strategy8.generate_signal" /\ ret.f.min_accuracy = 75 =>
        LET f == ret.f
            r == ret.result
            u == calculate_ultimate_score(f)
        IN  /\ r.signal # "SELL"
            /\ u.ultimate_accuracy >= 7500 => f.short_up > 120
            /\ r.signal = "BUY" =>
                 /\ u.recommendation = "strong_buy"
                 /\ r.take_profit - r.entry_price = 3 * (r.entry_price - r.stop_loss)
            /\ r.signal = "NO_TRADE" <=> u.ultimate_accuracy < 7500

\* a strong buy traded at the default threshold, the short-term
\* probability_up being above 60
C30_Witness ==
    /\ ret.op = "Strategy8.generate_signal"
    /\ ret.f.min_accuracy = 75
    /\ ret.result.signal = "BUY"
    /\ ret.f.short_up > 120
    /\ ret.f.shooting_star
    /\ ret.result.ultimate_data.ultimate_accuracy >= 7500


\* ---------------------------------------------------------------------------
\* strategies.py: TechnicalIndicators.atr, TechnicalIndicators.supertrend
\* ---------------------------------------------------------------------------

\* A series is a sequence of whole prices; index 1 here is index 0 of the
\* array. The smoothing ewm(alpha = 1/period, adjust = False) divides by the
\* period once per bar, so on n bars every value is a multiple of
\* 1 / period^(n-1), and hl_avg one of 1 / 2: the values of atr are carried
\* multiplied by period^(n-1), the bands and the line by twice that.

MaxBars == 3

RECURSIVE Power(_, _)
Power(b, n) == IF n = 0 THEN 1 ELSE b * Power(b, n - 1)

\* tr: max(high - low, |high - close_prev|, |low - close_prev|), tr[0] = high[0] - low[0]
TrueRange(high, low, close, i) ==
    IF i = 1 THEN high[1] - low[1]
    ELSE Max(high[i] - low[i],
             Max(Abs(high[i] - close[i - 1]), Abs(low[i] - close[i - 1])))

\* TechnicalIndicators.atr, multiplied by scale = period^(n-1)
RECURSIVE atr(_, _, _, _, _, _)
atr(high, low, close, period, scale, i) ==
    IF i = 1 THEN TrueRange(high, low, close, 1) * scale
    ELSE ((period - 1) * atr(high, low, close, period, scale, i - 1)
          + TrueRange(high, low, close, i) * scale) \div period

\* The arrays before the loop: supertrend = zeros_like(close),
\* direction = ones_like(close)
supertrend_before_loop(basic_upper, basic_lower) ==
    [ basic_upper |-> basic_upper, basic_lower |-> basic_lower,
      supertrend |-> [i \in 1..Len(basic_upper) |-> 0],
      direction |-> [i \in 1..Len(basic_upper) |-> 1] ]

\* The loop body for the indices i .. len(close) - 1 (lines 152-165); close
\* is on the scale of the bands
RECURSIVE supertrend_loop(_, _, _)
supertrend_loop(a, close, i) ==
    IF i > Len(close) THEN a
    ELSE
    LET upper == IF close[i - 1] > a.basic_upper[i - 1]
                 THEN Max(a.basic_upper[i], a.basic_upper[i - 1])
                 ELSE a.basic_upper[i]
        lower == IF close[i - 1] < a.basic_lower[i - 1]
                 THEN IF a.basic_lower[i] < a.basic_lower[i - 1]
                      THEN a.basic_lower[i] ELSE a.basic_lower[i - 1]
                 ELSE a.basic_lower[i]
        down  == close[i] <= upper
    IN  supertrend_loop(
            [ basic_upper |-> [a.basic_upper EXCEPT ![i] = upper],
              basic_lower |-> [a.basic_lower EXCEPT ![i] = lower],
              supertrend |-> [a.supertrend EXCEPT ![i] = IF down THEN upper ELSE lower],
              direction |-> [a.direction EXCEPT ![i] = IF down THEN -1 ELSE 1] ],
            close, i + 1)

\* TechnicalIndicators.supertrend: the returned (supertrend, direction) and
\* the two band arrays as the loop leaves them, all multiplied by `scale`
supertrend(high, low, close, atr_period, multiplier) ==
    LET n == Len(close)
        scale == Power(atr_period, n - 1)
        hl_avg == [i \in 1..n |-> (high[i] + low[i]) * scale]
        atr2 == [i \in 1..n |-> 2 * atr(high, low, close, atr_period, scale, i)]
        basic_upper == [i \in 1..n |-> hl_avg[i] + multiplier * atr2[i]]
        basic_lower == [i \in 1..n |-> hl_avg[i] - multiplier * atr2[i]]
        a == supertrend_loop(supertrend_before_loop(basic_upper, basic_lower),
                             [i \in 1..n |-> close[i] * 2 * scale], 2)
    IN  [ supertrend |-> a.supertrend, direction |-> a.direction,
          basic_upper |-> a.basic_upper, basic_lower |-> a.basic_lower,
          scale |-> 2 * scale ]

\* --- The inputs of a supertrend call --------------------------------------

\* bars [high, low, close] with low <= close <= high; the wide bar that
\* closes at its high after a narrow one is what turns the direction up
Bars ==
    { <<12, 10, 10>>, <<12, 10, 12>>, <<12, 8, 8>>, <<12, 8, 10>>,
      <<20, 10, 12>>, <<20, 10, 20>>, <<20, 8, 8>> }

BarSeries == UNION { [1..n -> Bars] : n \in 1..MaxBars }

InitSupertrend ==
    /\ TradingConfig = DefaultConfig
    /\ EXECUTION_MODE = "dry_run"
    /\ now = [day |-> 0, week |-> 0]
    /\ daily_stats = EmptyDict
    /\ weekly_stats = EmptyDict
    /\ kill_switch_active = FALSE
    /\ kill_switch_reason = NoReason
    /\ pending_tickets = EmptyDict
    /\ ticket_counter = 0
    /\ execution_log = <<>>
    /\ ret \in [ op : {"args"}, bars : BarSeries, atr_period : {1, 3},
                 multiplier : {1, 3} ]

Supertrend ==
    /\ ret.op = "args"
    /\ ret' = [ op |-> "supertrend", bars |-> ret.bars,
                result |-> supertrend([i \in DOMAIN ret.bars |-> ret.bars[i][1]],
                                      [i \in DOMAIN ret.bars |-> ret.bars[i][2]],
                                      [i \in DOMAIN ret.bars |-> ret.bars[i][3]],
                                      ret.atr_period, ret.multiplier) ]
    /\ UNCHANGED <<TradingConfig, EXECUTION_MODE, now, riskVars, execVars>>

NextSupertrend == Supertrend

SpecSupertrend == InitSupertrend /\ [][NextSupertrend]_vars

\* C19: at every index of the supertrend output, index 0 included, direction
\* is -1 or +1 and the line is the active band: the upper band where
\* direction is -1, the lower band where it is +1.
C19_LineIsActiveBand ==
    ret.op = "supertrend" =>
        \A i \in DOMAIN ret.result.direction :
            /\ ret.result.direction[i] \in {-1, 1}
            /\ ret.result.supertrend[i]
                 = IF ret.result.direction[i] = -1
                   THEN ret.result.basic_upper[i] ELSE ret.result.basic_lower[i]

\* The same from the second bar on, where the loop has written the arrays
LineIsActiveBandAfterFirst ==
    ret.op = "supertrend" =>
        \A i \in DOMAIN ret.result.direction \ {1} :
            /\ ret.result.direction[i] \in {-1, 1}
            /\ ret.result.supertrend[i]
                 = IF ret.result.direction[i] = -1
                   THEN ret.result.basic_upper[i] ELSE ret.result.basic_lower[i]


\* C22: the bands are sticky: the settled upper band of a bar is not above
\* the one of the bar before while the close of the bar before was at or
\* below it, and the settled lower band is not below the one of the bar
\* before while that close was at or above it.
C22_BandsNeverLoosen ==
    ret.op = "supertrend" =>
        \A i \in DOMAIN ret.bars \ {1} :
            LET prev_close == ret.bars[i - 1][3] * ret.result.scale
            IN  /\ prev_close <= ret.result.basic_upper[i - 1]
                     => ret.result.basic_upper[i] <= ret.result.basic_upper[i - 1]
                /\ prev_close >= ret.result.basic_lower[i - 1]
                     => ret.result.basic_lower[i] >= ret.result.basic_lower[i - 1]

\* ---------------------------------------------------------------------------
\* strategies.py: TechnicalIndicators.ema, Strategy1_MACrossover
\* ---------------------------------------------------------------------------

\* Prices of this section are whole numbers of 10^-9 above a base price (the
\* averages below commute with adding a constant to the series). A smoothing
\* step is rounded to the unit, which like the rounding of the floats stays
\* several orders of magnitude below the differences the strategy compares.

\* pd.Series(data).ewm(alpha = num / den, adjust = False).mean(): the value
\* at index 0 is data[0], the value at a later index is made from the one
\* before it and the new datum x
ewm(prev, x, num, den) == Round(num * x + (den - num) * prev, den)

\* TechnicalIndicators.ema: span = period, that is alpha = 2 / (period + 1)
ema(prev, x, period) == ewm(prev, x, 2, period + 1)

\* TechnicalIndicators.atr in the units of this section: alpha = 1 / period
atr_of_prices(prev, tr, period) == ewm(prev, tr, 1, period)

\* mutant: a fast average above the slow one counts as a crossover
crossed_up_without_prev(prev_fast, prev_slow, curr_fast, curr_slow, curr_close) ==
    curr_fast > curr_slow /\ curr_close > curr_fast

\* The long condition (line 1116)
crossed_up(prev_fast, prev_slow, curr_fast, curr_slow, curr_close) ==
    prev_fast <= prev_slow /\ curr_fast > curr_slow /\ curr_close > curr_fast

\* The short condition (line 1133)
crossed_down(prev_fast, prev_slow, curr_fast, curr_slow, curr_close) ==
    prev_fast >= prev_slow /\ curr_fast < curr_slow /\ curr_close < curr_fast

\* Strategy1_MACrossover.generate_signal on n bars, given the last two
\* values [fast, slow] of the two averages, the last close and atr, and the
\* parameters p; atr_multiplier is a whole number
Strategy1_generate_signal(n, prev, curr, curr_close, curr_atr, p) ==
    IF n < Max(p.fast_period, Max(p.slow_period, p.atr_period)) + 2
    THEN [ signal |-> "NO_TRADE", reason |-> <<"not enough data">> ]
    ELSE
    LET prev_fast == prev.fast
        prev_slow == prev.slow
        curr_fast == curr.fast
        curr_slow == curr.slow
        fast_period == p.fast_period
        slow_period == p.slow_period
        atr_multiplier == p.atr_multiplier
    IN  IF crossed_up(prev_fast, prev_slow, curr_fast, curr_slow, curr_close)
        THEN [ signal |-> "BUY", entry_price |-> curr_close,
               stop_loss |-> curr_close - atr_multiplier * curr_atr,
               take_profit |-> curr_close + atr_multiplier * curr_atr * 2,
               atr |-> curr_atr,
               reason |-> <<"EMA", ToString(fast_period), " crosses above EMA",
                            ToString(slow_period)>> ]
        ELSE IF crossed_down(prev_fast, prev_slow, curr_fast, curr_slow, curr_close)
        THEN [ signal |-> "SELL", entry_price |-> curr_close,
               stop_loss |-> curr_close + atr_multiplier * curr_atr,
               take_profit |-> curr_close - atr_multiplier * curr_atr * 2,
               atr |-> curr_atr,
               reason |-> <<"EMA", ToString(fast_period), " crosses below EMA",
                            ToString(slow_period)>> ]
        ELSE [ signal |-> "NO_TRADE", reason |-> <<"no crossover signal">> ]

\* --- A series fed to Strategy1 bar by bar ----------------------------------

ScenarioBars == 150

\* close of bar i: "rising" climbs 0.0001 a bar, "valley" falls by 0.0001 a
\* bar for half of the bars and climbs afterwards; high and low are 0.0005
\* above and below the close
SeriesNames == {"rising", "valley"}

SeriesClose(name) ==
    [i \in 1..ScenarioBars |->
        IF name = "rising" THEN 100000 * (i - 1)
        ELSE 100000 * Abs(i - 1 - ScenarioBars \div 2)]

SeriesHigh(name) == [i \in 1..ScenarioBars |-> SeriesClose(name)[i] + 500000]

SeriesLow(name) == [i \in 1..ScenarioBars |-> SeriesClose(name)[i] - 500000]

\* The parameters of the scenario: the defaults of the signature
Strategy1Parameters ==
    [ fast_period |-> 10, slow_period |-> 30, atr_period |-> 14,
      atr_multiplier |-> 2 ]

\* The strategy is evaluated at every new bar on the bars so far. ret holds
\* the number of bars, the indicator values at the latest bar, the verdict
\* and the count of the BUY and SELL verdicts so far.
InitMACrossover ==
    /\ TradingConfig = DefaultConfig
    /\ EXECUTION_MODE = "dry_run"
    /\ now = [day |-> 0, week |-> 0]
    /\ daily_stats = EmptyDict
    /\ weekly_stats = EmptyDict
    /\ kill_switch_active = FALSE
    /\ kill_switch_reason = NoReason
    /\ pending_tickets = EmptyDict
    /\ ticket_counter = 0
    /\ execution_log = <<>>
    /\ ret \in [ op : {"feed"}, series : SeriesNames, n : {0}, buys : {0},
                 sells : {0}, ema_fast : {0}, ema_slow : {0}, atr : {0} ]

Strategy1GenerateSignal ==
    /\ ret.op \in {"feed", "Strategy1.generate_signal"}
    /\ ret.n < ScenarioBars
    /\ LET n == ret.n + 1
           close == SeriesClose(ret.series)
           tr == TrueRange(SeriesHigh(ret.series), SeriesLow(ret.series), close, n)
           p == Strategy1Parameters
           curr_fast == IF n = 1 THEN close[1]
                        ELSE ema(ret.ema_fast, close[n], p.fast_period)
           curr_slow == IF n = 1 THEN close[1]
                        ELSE ema(ret.ema_slow, close[n], p.slow_period)
           curr_atr == IF n = 1 THEN tr ELSE atr_of_prices(ret.atr, tr, p.atr_period)
           result == Strategy1_generate_signal(n,
                         [fast |-> ret.ema_fast, slow |-> ret.ema_slow],
                         [fast |-> curr_fast, slow |-> curr_slow],
                         close[n], curr_atr, p)
       IN  ret' = [ op |-> "Strategy1.generate_signal", series |-> ret.series,
                    n |-> n, ema_fast |-> curr_fast, ema_slow |-> curr_slow,
                    atr |-> curr_atr,
                    buys |-> ret.buys + (IF result.signal = "BUY" THEN 1 ELSE 0),
                    sells |-> ret.sells + (IF result.signal = "SELL" THEN 1 ELSE 0),
                    result |-> result ]
    /\ UNCHANGED <<TradingConfig, EXECUTION_MODE, now, riskVars, execVars>>

NextMACrossover == Strategy1GenerateSignal

SpecMACrossover == InitMACrossover /\ [][NextMACrossover]_vars

\* C20: fed the strictly rising series, Strategy1 with fast = 10 and
\* slow = 30 produces no BUY and no SELL verdict: every evaluation returns
\* NO_TRADE with a reason, for want of bars below 32 and for want of a
\* crossover from there on, the fast average standing above the slow one
\* from the second bar of the series. The BUY that another series earns
\* has stop_loss < entry_price < take_profit and a reward distance of twice
\* the risk distance.
C20_RisingSeriesNeverCrosses ==
    ret.op = "Strategy1.generate_signal" =>
        /\ ret.series = "rising" =>
             /\ ret.buys = 0 /\ ret.sells = 0
             /\ ret.result.signal = "NO_TRADE"
             /\ NonEmpty(ret.result.reason)
             /\ ret.n >= 2 => ret.ema_fast > ret.ema_slow + 10000
        /\ ret.result.signal = "BUY" =>
             /\ ret.result.stop_loss < ret.result.entry_price
             /\ ret.result.entry_price < ret.result.take_profit
             /\ ret.result.take_profit - ret.result.entry_price
                  = 2 * (ret.result.entry_price - ret.result.stop_loss)

\* the whole rising series was fed and the last verdict is NO_TRADE again
C20_Witness ==
    /\ ret.op = "Strategy1.generate_signal"
    /\ ret.series = "rising"
    /\ ret.n = ScenarioBars
    /\ ret.buys = 0
    /\ ret.result.signal = "NO_TRADE"
    /\ ret.result.reason = <<"no crossover signal">>

\* C20 as stated: the rising series has earned exactly one BUY verdict once
\* all of its bars are fed
C20_SingleBuyOnRisingSeries ==
    ret.op = "Strategy1.generate_signal" /\ ret.series = "rising"
        /\ ret.n = ScenarioBars => ret.buys = 1

=============================================================================
